---- MODULE Spec2Model ----
(***************************************************************************)
(* Model of the multi-chain EVM listener (rust-listener): one ChainPoller  *)
(* per chain (poller.rs) writing to a per-chain store (transfers,          *)
(* checkpoint) and a shared store (fusion_plus_swaps, fusion_swaps,        *)
(* crypto2fiat_events) (db.rs), the decoders of fusion.rs, and the TTL     *)
(* cleanup task of main.rs.                                                *)
(*                                                                         *)
(* poller.rs calls the store through one handle (self.db.f(chain_id, ..)); *)
(* the calls are modelled by the functions of the same name of db.rs       *)
(* (ChainDatabase for the chain's own tables, SharedDatabase for the       *)
(* cross-chain tables).                                                    *)
(***************************************************************************)
EXTENDS Integers, Sequences, FiniteSets, TLC

(***************************************************************************)
(* Bounds of the model.                                                    *)
(***************************************************************************)
MaxReorg == 2        \* reorg_safety_blocks ranges over 0..MaxReorg
MaxBackfill == 1     \* max_backfill_blocks ranges over 0..MaxBackfill
MaxQuery == 2        \* max_blocks_per_query ranges over 1..MaxQuery
HeadGrowth == 1      \* the chain head grows from Base to Base + HeadGrowth
MaxTicks == 2        \* the wall clock advances at most MaxTicks seconds
MaxSeq == 2          \* at most MaxSeq ids of fusion_plus_swaps are handed out

(***************************************************************************)
(* Program constants.                                                      *)
(***************************************************************************)
CacheKeepBlocks == 200          \* cleanup_timestamp_cache keeps last 200

Base == MaxReorg + 1            \* chain head when the model starts
MaxHead == Base + HeadGrowth
Blocks == 0..MaxHead

ChainA == 1                     \* Ethereum (config.rs)
ChainB == 10                    \* OP Mainnet (config.rs)
Chains == {ChainA, ChainB}

NoCheckpoint == -1              \* get_checkpoint returning None
NullInt == -1                   \* SQL NULL in an integer column
NullText == "null"              \* SQL NULL in a plain text column

(***************************************************************************)
(* Hex strings.  A hex string is its value (id) and whether every letter   *)
(* of it is lowercase.  str::to_lowercase keeps the value and makes it     *)
(* lowercase; SQL text equality is case sensitive, so two strings are      *)
(* equal only when both parts agree.                                       *)
(***************************************************************************)
Hex(id) == [id |-> id, lower |-> TRUE]
HexMixed(id) == [id |-> id, lower |-> FALSE]
NullHex == [id |-> "", lower |-> TRUE]          \* SQL NULL / Option::None
EmptyHex == [id |-> "empty", lower |-> TRUE]    \* String::new()
to_lowercase(s) == [id |-> s.id, lower |-> TRUE]
map_to_lowercase(s) == IF s = NullHex THEN NullHex ELSE to_lowercase(s)

\* keccak256 as a fixed function on the secrets of the model.
Keccak(id) ==
    CASE id = "s1" -> "h1"
      [] id = "s2" -> "h2"
      [] OTHER -> "h-other"

\* hex::decode(..).ok(): fails on a character that is no hex digit.
IsHexDigits(s) == s.id # "not-hex"

\* u32::from_str_radix(word, 16).unwrap_or(0) on the words of the model.
WordToU32(w) ==
    CASE w.id = "cA" -> ChainA
      [] w.id = "cB" -> ChainB
      [] OTHER -> 0

\* a.saturating_sub(b) on u64
saturating_sub(a, b) == IF a >= b THEN a - b ELSE 0
Max(a, b) == IF a >= b THEN a ELSE b
Min(a, b) == IF a <= b THEN a ELSE b

(***************************************************************************)
(* Event signatures and contract addresses (types.rs).                     *)
(***************************************************************************)
TRANSFER_TOPIC == Hex("Transfer")
SRC_ESCROW_CREATED_TOPIC == Hex("SrcEscrowCreated")
DST_ESCROW_CREATED_TOPIC == Hex("DstEscrowCreated")
ESCROW_WITHDRAWAL_TOPIC == Hex("EscrowWithdrawal")
ESCROW_CANCELLED_TOPIC == Hex("EscrowCancelled")
ORDER_FILLED_TOPIC == Hex("OrderFilled")
ORDER_CANCELLED_TOPIC == Hex("OrderCancelled")
ESCROW_FACTORY == Hex("factory")
AGGREGATION_ROUTER_V6 == Hex("routerV6")
AGGREGATION_ROUTER_V5 == Hex("routerV5")
AGGREGATION_ROUTER_ZKSYNC == Hex("routerZk")

(***************************************************************************)
(* State.                                                                  *)
(***************************************************************************)
VARIABLES
    config,                 \* PollerConfig, the same for every poller
    networks,               \* the chains a poller is spawned for
    chain_logs,             \* chain_logs[c]: the logs chain c holds
    head,                   \* head[c]: eth_blockNumber of chain c
    now,                    \* wall clock, seconds
    checkpoint,             \* checkpoint[c]: the checkpoint row of chain c
    transfers,              \* transfers[c]: the transfers table of chain c
    fusion_plus_swaps,      \* shared table
    fusion_plus_seq,        \* last AUTOINCREMENT id of fusion_plus_swaps
    fusion_swaps,           \* shared table
    crypto2fiat_events,     \* shared table
    pc,                     \* pc[c]: where the poller task of chain c is
    last_processed_block,   \* the local of ChainPoller::run
    window,                 \* [from, to] of the iteration under way
    queue,                  \* logs fetched and not yet dispatched
    block_timestamp_cache,  \* keys of ChainPoller.block_timestamp_cache
    startup,                \* history: what initialize_checkpoint did
    iter,                   \* history: the iteration under way or last ended
    succ,                   \* history: window ends of successful iterations
    cover,                  \* history: cover[c].inserted, the blocks whose
                            \* Transfer batch this run has inserted, and
                            \* cover[c].cancelled, the range of the iteration
                            \* the last stop of the process interrupted
    task,                   \* task[c]: the handler the poller of chain c is
                            \* in: the store call it makes next and what
                            \* its lookup returned
    cleanup,                \* the run of cleanup_all under way: the chain
                            \* stores it has cleaned, the number of shared
                            \* tables it has cleaned, the clock its first
                            \* call read and the newest row it has deleted
    seen,                   \* history, kept when seen.track says so: the
                            \* logs the pollers have processed, the kinds
                            \* of those processed again, the order in
                            \* which the handlers were entered and left,
                            \* and the logs processed after a deletion
    rpc_call                \* one call of RpcClient::request: its client,
                            \* retries, and history of responses and sleeps

vars == << config, networks, chain_logs, head, now, checkpoint, transfers, fusion_plus_swaps,
           fusion_plus_seq, fusion_swaps, crypto2fiat_events, pc,
           last_processed_block, window, queue, block_timestamp_cache,
           startup, iter, succ, cover, seen, rpc_call, task, cleanup >>

deployment == << config, networks, chain_logs >>

stored == << checkpoint, transfers, fusion_plus_swaps, fusion_plus_seq,
             fusion_swaps, crypto2fiat_events >>

(***************************************************************************)
(* The chains.  A log is what eth_getLogs returns (types.rs, Log): data is *)
(* the payload as a sequence of 32-byte words, topics a sequence of words. *)
(* The logs of a chain are fixed; the RPC returns those of the queried     *)
(* range in block and log-index order.                                     *)
(***************************************************************************)
MkLog(address, topics, data, block_number, transaction_hash, log_index) ==
    [address |-> address, topics |-> topics, data |-> data,
     block_number |-> block_number, transaction_hash |-> transaction_hash,
     log_index |-> log_index]

SrcPayload(order, hashlock, dstChainWord) ==
    << order, hashlock, Hex("maker1"), Hex("taker1"), Hex("tokS"),
       Hex("amtS"), Hex("depS"), Hex("tlS"), HexMixed("maker1"),
       Hex("amtD"), Hex("tokD"), Hex("depD"), dstChainWord >>

DstPayload(order, hashlock) ==
    << order, hashlock, Hex("maker1"), HexMixed("taker2"), Hex("tokD"),
       Hex("amtD"), Hex("depD"), Hex("tlD") >>

\* one swap seen from its source chain: the maker's deposit and the
\* escrow, in block b
SoloAt(b) ==
    << MkLog(HexMixed("tokS"), <<TRANSFER_TOPIC, Hex("maker1"), HexMixed("escS")>>,
             <<Hex("amtS")>>, b, Hex("a1"), 0),
       MkLog(ESCROW_FACTORY, <<SRC_ESCROW_CREATED_TOPIC>>,
             SrcPayload(HexMixed("o1"), Hex("h1"), Hex("cB")), b, Hex("a1"), 1) >>

\* the swap in the first block after the head the model starts at
LogsSolo == SoloAt(Base + 1)

\* the source chain of the swap, in the head block: the withdrawal that
\* reveals the secret and a cancellation whose topic the node returns in
\* mixed case
LogsA ==
    SoloAt(Base) \o
    << MkLog(Hex("escS"), <<ESCROW_WITHDRAWAL_TOPIC>>,
             <<Hex("s1")>>, Base, Hex("a2"), 2),
       MkLog(Hex("escX"), <<HexMixed("EscrowCancelled")>>,
             <<>>, Base, Hex("a4"), 3) >>

\* the destination chain of the swap, and two orders of the router, one
\* filled and one cancelled
LogsB ==
    << MkLog(ESCROW_FACTORY, <<HexMixed("DstEscrowCreated")>>,
             DstPayload(Hex("o1"), Hex("h1")), Base, HexMixed("b1"), 0),
       MkLog(AGGREGATION_ROUTER_V6, <<ORDER_FILLED_TOPIC>>,
             <<Hex("o9"), Hex("zero")>>, Base, Hex("b2"), 1),
       MkLog(Hex("escD"), <<ESCROW_WITHDRAWAL_TOPIC>>,
             <<HexMixed("s1")>>, Base, Hex("b3"), 2),
       MkLog(AGGREGATION_ROUTER_V6, <<ORDER_CANCELLED_TOPIC>>,
             <<Hex("o8"), Hex("rem")>>, Base, Hex("b4"), 3) >>

ChainLogs(c) == chain_logs[c]

\* block.timestamp_u64() of eth_getBlockByNumber
BlockTimestamp(c, b) == 1000 * c + b

InRange(l, from_block, to_block) ==
    l.block_number >= from_block /\ l.block_number <= to_block

Topic0In(l, topic0_options) ==
    Len(l.topics) > 0 /\ to_lowercase(l.topics[1]) \in topic0_options

\* rpc.get_transfer_logs: topics = [TRANSFER_TOPIC], any address
get_transfer_logs(c, from_block, to_block) ==
    SelectSeq(ChainLogs(c), LAMBDA l :
        InRange(l, from_block, to_block) /\ Topic0In(l, {TRANSFER_TOPIC}))

\* rpc.get_logs_multi_topics: one address, OR over topic0
get_logs_multi_topics(c, from_block, to_block, address, topic0_options) ==
    SelectSeq(ChainLogs(c), LAMBDA l :
        /\ InRange(l, from_block, to_block)
        /\ to_lowercase(l.address) = address
        /\ Topic0In(l, topic0_options))

\* rpc.get_logs_multi_topics_any_address: OR over topic0
get_logs_multi_topics_any_address(c, from_block, to_block, topic0_options) ==
    SelectSeq(ChainLogs(c), LAMBDA l :
        InRange(l, from_block, to_block) /\ Topic0In(l, topic0_options))

(***************************************************************************)
(* Decoders (fusion.rs).  Word N of the payload is data[N + 1].            *)
(***************************************************************************)
DecodeNone == [ok |-> FALSE]

to_address(word) == to_lowercase(word)      \* low 20 bytes, lowercased
to_bytes32(word) == to_lowercase(word)

decode_src_escrow_created(data) ==
    IF Len(data) < 13 THEN DecodeNone
    ELSE [ok |-> TRUE,
          order_hash |-> to_bytes32(data[1]),
          hashlock |-> to_bytes32(data[2]),
          src_maker |-> to_address(data[3]),
          src_taker |-> to_address(data[4]),
          src_token |-> to_address(data[5]),
          src_amount |-> to_bytes32(data[6]),
          src_safety_deposit |-> to_bytes32(data[7]),
          src_timelocks |-> to_bytes32(data[8]),
          dst_maker |-> to_address(data[9]),
          dst_amount |-> to_bytes32(data[10]),
          dst_token |-> to_address(data[11]),
          dst_safety_deposit |-> to_bytes32(data[12]),
          dst_chain_id |-> WordToU32(data[13])]

decode_dst_escrow_created(data) ==
    IF Len(data) < 8 THEN DecodeNone
    ELSE [ok |-> TRUE,
          order_hash |-> to_bytes32(data[1]),
          hashlock |-> to_bytes32(data[2]),
          dst_maker |-> to_address(data[3]),
          dst_taker |-> to_address(data[4]),
          dst_token |-> to_address(data[5]),
          dst_amount |-> to_bytes32(data[6]),
          dst_safety_deposit |-> to_bytes32(data[7]),
          dst_timelocks |-> to_bytes32(data[8])]

decode_escrow_withdrawal(data) ==
    IF Len(data) < 1 THEN DecodeNone
    ELSE [ok |-> TRUE, secret |-> to_lowercase(data[1])]

compute_hashlock_from_secret(secret) ==
    IF ~IsHexDigits(secret) THEN DecodeNone
    ELSE [ok |-> TRUE, hashlock |-> Hex(Keccak(secret.id))]

decode_order_filled(topics, data) ==
    IF Len(topics) = 0 \/ Len(data) < 2 THEN DecodeNone
    ELSE [ok |-> TRUE,
          maker |-> EmptyHex,
          order_hash |-> to_lowercase(data[1]),
          remaining |-> to_lowercase(data[2])]

(***************************************************************************)
(* FusionPlusSwap::from_src_created (types.rs)                             *)
(***************************************************************************)
\* the swap as if the destination escrow were known when the source escrow
\* is created
from_src_created_with_dst(data, chain_id, tx_hash, block_number, block_timestamp, log_index) ==
    [order_hash |-> data.order_hash,
     hashlock |-> data.hashlock,
     secret |-> NullHex,
     src_chain_id |-> chain_id,
     src_tx_hash |-> tx_hash,
     src_block_number |-> block_number,
     src_block_timestamp |-> block_timestamp,
     src_log_index |-> log_index,
     src_escrow_address |-> NullHex,
     src_maker |-> data.src_maker,
     src_taker |-> data.src_taker,
     src_token |-> data.src_token,
     src_amount |-> data.src_amount,
     src_safety_deposit |-> data.src_safety_deposit,
     src_timelocks |-> data.src_timelocks,
     src_status |-> "created",
     dst_chain_id |-> data.dst_chain_id,
     dst_tx_hash |-> tx_hash,
     dst_block_number |-> block_number,
     dst_block_timestamp |-> block_timestamp,
     dst_log_index |-> log_index,
     dst_escrow_address |-> NullHex,
     dst_maker |-> data.dst_maker,
     dst_taker |-> NullHex,
     dst_token |-> data.dst_token,
     dst_amount |-> data.dst_amount,
     dst_safety_deposit |-> data.dst_safety_deposit,
     dst_timelocks |-> NullHex,
     dst_status |-> "created"]

from_src_created(data, chain_id, tx_hash, block_number, block_timestamp, log_index) ==
    [order_hash |-> data.order_hash,
     hashlock |-> data.hashlock,
     secret |-> NullHex,
     src_chain_id |-> chain_id,
     src_tx_hash |-> tx_hash,
     src_block_number |-> block_number,
     src_block_timestamp |-> block_timestamp,
     src_log_index |-> log_index,
     src_escrow_address |-> NullHex,
     src_maker |-> data.src_maker,
     src_taker |-> data.src_taker,
     src_token |-> data.src_token,
     src_amount |-> data.src_amount,
     src_safety_deposit |-> data.src_safety_deposit,
     src_timelocks |-> data.src_timelocks,
     src_status |-> "created",
     dst_chain_id |-> data.dst_chain_id,
     dst_tx_hash |-> NullHex,
     dst_block_number |-> NullInt,
     dst_block_timestamp |-> NullInt,
     dst_log_index |-> NullInt,
     dst_escrow_address |-> NullHex,
     dst_maker |-> data.dst_maker,
     dst_taker |-> NullHex,
     dst_token |-> data.dst_token,
     dst_amount |-> data.dst_amount,
     dst_safety_deposit |-> data.dst_safety_deposit,
     dst_timelocks |-> NullHex,
     dst_status |-> "pending"]

(***************************************************************************)
(* ChainDatabase (db.rs): the transfers table of one chain is a set of     *)
(* rows; UNIQUE(tx_hash, log_index) is enforced by INSERT OR IGNORE.       *)
(***************************************************************************)
TransferRow(t, now_secs) ==
    [tx_hash |-> t.tx_hash,
     log_index |-> t.log_index,
     token |-> to_lowercase(t.token),
     from_addr |-> to_lowercase(t.from_addr),
     to_addr |-> to_lowercase(t.to_addr),
     value |-> t.value,
     block_number |-> t.block_number,
     block_timestamp |-> t.block_timestamp,
     swap_type |-> NullText,
     created_at |-> now_secs]

\* INSERT INTO transfers ... with no conflict clause and no UNIQUE index
InsertTransfer(table, t, now_secs) == table \cup {TransferRow(t, now_secs)}

\* INSERT OR IGNORE INTO transfers ...
InsertOrIgnoreTransfer(table, t, now_secs) ==
    IF \E r \in table : r.tx_hash = t.tx_hash /\ r.log_index = t.log_index
    THEN table
    ELSE table \cup {TransferRow(t, now_secs)}

\* ChainDatabase::insert_transfer: one transfer, one reading of the clock
insert_transfer(table, t, now_secs) == InsertOrIgnoreTransfer(table, t, now_secs)

RECURSIVE insert_transfers_batch(_, _, _)
insert_transfers_batch(table, ts, now_secs) ==
    IF ts = << >> THEN table
    ELSE insert_transfers_batch(InsertOrIgnoreTransfer(table, Head(ts), now_secs),
                                Tail(ts), now_secs)

\* UPDATE transfers SET swap_type = ?1 WHERE tx_hash = ?2 (lowercased)
label_transfers_as_fusion(table, tx_hash, swap_type) ==
    { IF r.tx_hash = to_lowercase(tx_hash)
      THEN [r EXCEPT !.swap_type = swap_type] ELSE r : r \in table }

\* SELECT ... WHERE tx_hash = ?1 (lowercased) ORDER BY log_index ASC
RECURSIVE SortByLogIndex(_)
SortByLogIndex(rows) ==
    IF rows = {} THEN << >>
    ELSE LET m == CHOOSE r \in rows : \A q \in rows : r.log_index <= q.log_index
         IN <<m>> \o SortByLogIndex(rows \ {m})

get_transfers_by_tx_hash(table, tx_hash) ==
    SortByLogIndex({ r \in table : r.tx_hash = to_lowercase(tx_hash) })

\* DELETE FROM transfers WHERE created_at < now - ttl
cleanup_old(table, now_secs, ttl_secs) ==
    { r \in table : ~(r.created_at < now_secs - ttl_secs) }

(***************************************************************************)
(* SharedDatabase (db.rs): fusion_plus_swaps, fusion_swaps and             *)
(* crypto2fiat_events are sets of rows.  A fusion_plus_swaps row carries   *)
(* its AUTOINCREMENT id: a query_row without ORDER BY returns the matching *)
(* row of least id.                                                        *)
(***************************************************************************)
FusionPlusRow(swap, id, now_secs) ==
    [id |-> id,
     order_hash |-> to_lowercase(swap.order_hash),
     hashlock |-> to_lowercase(swap.hashlock),
     secret |-> swap.secret,
     src_chain_id |-> swap.src_chain_id,
     src_tx_hash |-> to_lowercase(swap.src_tx_hash),
     src_block_number |-> swap.src_block_number,
     src_block_timestamp |-> swap.src_block_timestamp,
     src_log_index |-> swap.src_log_index,
     src_escrow_address |-> map_to_lowercase(swap.src_escrow_address),
     src_maker |-> to_lowercase(swap.src_maker),
     src_taker |-> to_lowercase(swap.src_taker),
     src_token |-> to_lowercase(swap.src_token),
     src_amount |-> swap.src_amount,
     src_safety_deposit |-> swap.src_safety_deposit,
     src_timelocks |-> swap.src_timelocks,
     src_status |-> swap.src_status,
     dst_chain_id |-> swap.dst_chain_id,
     dst_tx_hash |-> map_to_lowercase(swap.dst_tx_hash),
     dst_block_number |-> swap.dst_block_number,
     dst_block_timestamp |-> swap.dst_block_timestamp,
     dst_log_index |-> swap.dst_log_index,
     dst_escrow_address |-> map_to_lowercase(swap.dst_escrow_address),
     dst_maker |-> to_lowercase(swap.dst_maker),
     dst_taker |-> map_to_lowercase(swap.dst_taker),
     dst_token |-> to_lowercase(swap.dst_token),
     dst_amount |-> swap.dst_amount,
     dst_safety_deposit |-> swap.dst_safety_deposit,
     dst_timelocks |-> swap.dst_timelocks,
     dst_status |-> swap.dst_status,
     created_at |-> now_secs,
     updated_at |-> now_secs]

\* INSERT INTO fusion_plus_swaps with no conflict clause on order_hash
insert_fusion_plus_swap_plain(table, seq, swap, now_secs) ==
    [table |-> table \cup {FusionPlusRow(swap, seq + 1, now_secs)},
     seq |-> seq + 1, inserted |-> TRUE]

\* INSERT OR IGNORE INTO fusion_plus_swaps (id INTEGER PRIMARY KEY
\* AUTOINCREMENT, order_hash UNIQUE); the result is the table and the last
\* id handed out.  SQLite takes the next id before it meets the conflict on
\* order_hash and keeps it consumed: an ignored insert writes no row and
\* moves the sequence on by one.
insert_fusion_plus_swap(table, seq, swap, now_secs) ==
    IF \E r \in table : r.order_hash = to_lowercase(swap.order_hash)
    THEN [table |-> table, seq |-> seq + 1, inserted |-> FALSE]
    ELSE [table |-> table \cup {FusionPlusRow(swap, seq + 1, now_secs)},
          seq |-> seq + 1, inserted |-> TRUE]

\* UPDATE fusion_plus_swaps SET dst_* ... WHERE order_hash = ?9 AND dst_chain_id = ?10
\* the update with WHERE order_hash = ?12 alone, the chain not compared
update_fusion_plus_dst_any_chain(table, order_hash, dst_data, chain_id, tx_hash, block_number, block_timestamp, log_index, escrow_address, now_secs) ==
    { IF r.order_hash = to_lowercase(order_hash)
      THEN [r EXCEPT !.dst_tx_hash = to_lowercase(tx_hash),
                     !.dst_block_number = block_number,
                     !.dst_block_timestamp = block_timestamp,
                     !.dst_log_index = log_index,
                     !.dst_escrow_address = map_to_lowercase(escrow_address),
                     !.dst_taker = to_lowercase(dst_data.dst_taker),
                     !.dst_timelocks = dst_data.dst_timelocks,
                     !.dst_status = "created",
                     !.updated_at = now_secs]
      ELSE r : r \in table }

\* the update that also sets created_at to the time of the update
update_fusion_plus_dst_touching(table, order_hash, dst_data, chain_id, tx_hash, block_number, block_timestamp, log_index, escrow_address, now_secs) ==
    { IF r.order_hash = to_lowercase(order_hash) /\ r.dst_chain_id = chain_id
      THEN [r EXCEPT !.dst_tx_hash = to_lowercase(tx_hash),
                     !.dst_block_number = block_number,
                     !.dst_block_timestamp = block_timestamp,
                     !.dst_log_index = log_index,
                     !.dst_escrow_address = map_to_lowercase(escrow_address),
                     !.dst_taker = to_lowercase(dst_data.dst_taker),
                     !.dst_timelocks = dst_data.dst_timelocks,
                     !.dst_status = "created",
                     !.created_at = now_secs,
                     !.updated_at = now_secs]
      ELSE r : r \in table }

update_fusion_plus_dst(table, order_hash, dst_data, chain_id, tx_hash, block_number, block_timestamp, log_index, escrow_address, now_secs) ==
    { IF r.order_hash = to_lowercase(order_hash) /\ r.dst_chain_id = chain_id
      THEN [r EXCEPT !.dst_tx_hash = to_lowercase(tx_hash),
                     !.dst_block_number = block_number,
                     !.dst_block_timestamp = block_timestamp,
                     !.dst_log_index = log_index,
                     !.dst_escrow_address = map_to_lowercase(escrow_address),
                     !.dst_taker = to_lowercase(dst_data.dst_taker),
                     !.dst_timelocks = dst_data.dst_timelocks,
                     !.dst_status = "created",
                     !.updated_at = now_secs]
      ELSE r : r \in table }

\* UPDATE fusion_plus_swaps SET {src,dst}_status = 'withdrawn', secret = ?1 ...
\* WHERE order_hash = ?3 AND {src,dst}_chain_id = ?4
update_fusion_plus_withdrawal(table, order_hash, chain_id, is_src, secret, now_secs) ==
    IF is_src
    THEN { IF r.order_hash = to_lowercase(order_hash) /\ r.src_chain_id = chain_id
           THEN [r EXCEPT !.src_status = "withdrawn",
                          !.secret = to_lowercase(secret),
                          !.updated_at = now_secs]
           ELSE r : r \in table }
    ELSE { IF r.order_hash = to_lowercase(order_hash) /\ r.dst_chain_id = chain_id
           THEN [r EXCEPT !.dst_status = "withdrawn",
                          !.secret = to_lowercase(secret),
                          !.updated_at = now_secs]
           ELSE r : r \in table }

\* UPDATE fusion_plus_swaps SET {src,dst}_status = 'cancelled' ...
\* WHERE order_hash = ?2 AND {src,dst}_chain_id = ?3
update_fusion_plus_cancelled(table, order_hash, chain_id, is_src, now_secs) ==
    IF is_src
    THEN { IF r.order_hash = to_lowercase(order_hash) /\ r.src_chain_id = chain_id
           THEN [r EXCEPT !.src_status = "cancelled", !.updated_at = now_secs]
           ELSE r : r \in table }
    ELSE { IF r.order_hash = to_lowercase(order_hash) /\ r.dst_chain_id = chain_id
           THEN [r EXCEPT !.dst_status = "cancelled", !.updated_at = now_secs]
           ELSE r : r \in table }

\* UPDATE fusion_plus_swaps SET ... WHERE hashlock = ?3 AND {src,dst}_chain_id = ?4
\* the update that takes the source branch whatever is_src says
update_fusion_plus_withdrawal_by_hashlock_src_only(table, hashlock, chain_id, is_src, secret, tx_hash, block_number, block_timestamp, log_index, now_secs) ==
    { IF r.hashlock = to_lowercase(hashlock) /\ r.src_chain_id = chain_id
      THEN [r EXCEPT !.src_status = "withdrawn",
                     !.secret = to_lowercase(secret),
                     !.updated_at = now_secs]
      ELSE r : r \in table }

update_fusion_plus_withdrawal_by_hashlock(table, hashlock, chain_id, is_src, secret, tx_hash, block_number, block_timestamp, log_index, now_secs) ==
    IF is_src
    THEN { IF r.hashlock = to_lowercase(hashlock) /\ r.src_chain_id = chain_id
           THEN [r EXCEPT !.src_status = "withdrawn",
                          !.secret = to_lowercase(secret),
                          !.updated_at = now_secs]
           ELSE r : r \in table }
    ELSE { IF r.hashlock = to_lowercase(hashlock) /\ r.dst_chain_id = chain_id
           THEN [r EXCEPT !.dst_status = "withdrawn",
                          !.dst_tx_hash = to_lowercase(tx_hash),
                          !.dst_block_number = block_number,
                          !.dst_block_timestamp = block_timestamp,
                          !.dst_log_index = log_index,
                          !.secret = to_lowercase(secret),
                          !.updated_at = now_secs]
           ELSE r : r \in table }

\* SELECT ... FROM fusion_plus_swaps WHERE hashlock = ?1 (query_row)
HashlockMatches(table, hashlock) ==
    { r \in table : r.hashlock = to_lowercase(hashlock) }

get_fusion_plus_swap_by_hashlock(table, hashlock) ==
    LET m == HashlockMatches(table, hashlock)
    IN CHOOSE r \in m : \A q \in m : r.id <= q.id

\* DELETE FROM fusion_plus_swaps WHERE created_at < now - ttl
cleanup_old_fusion_plus(table, now_secs, ttl_secs) ==
    { r \in table : ~(r.created_at < now_secs - ttl_secs) }

FusionSwapRow(swap, now_secs) ==
    [order_hash |-> to_lowercase(swap.order_hash),
     chain_id |-> swap.chain_id,
     tx_hash |-> to_lowercase(swap.tx_hash),
     block_number |-> swap.block_number,
     block_timestamp |-> swap.block_timestamp,
     log_index |-> swap.log_index,
     maker |-> to_lowercase(swap.maker),
     taker |-> NullHex,
     maker_token |-> map_to_lowercase(swap.maker_token),
     taker_token |-> map_to_lowercase(swap.taker_token),
     maker_amount |-> swap.maker_amount,
     taker_amount |-> swap.taker_amount,
     remaining |-> swap.remaining,
     is_partial_fill |-> swap.is_partial_fill,
     status |-> swap.status,
     created_at |-> now_secs]

\* INSERT OR IGNORE INTO fusion_swaps, UNIQUE(chain_id, tx_hash, log_index)
insert_fusion_swap(table, swap, now_secs) ==
    IF \E r \in table : /\ r.chain_id = swap.chain_id
                        /\ r.tx_hash = to_lowercase(swap.tx_hash)
                        /\ r.log_index = swap.log_index
    THEN table
    ELSE table \cup {FusionSwapRow(swap, now_secs)}

cleanup_old_fusion_swaps(table, now_secs, ttl_secs) ==
    { r \in table : ~(r.created_at < now_secs - ttl_secs) }

\* INSERT OR IGNORE INTO crypto2fiat_events ..., UNIQUE(chain_id, tx_hash,
\* log_index); the hash is stored in lowercase and compared as stored
Crypto2FiatRow(event, now_secs) ==
    [order_id |-> to_lowercase(event.order_id),
     token |-> to_lowercase(event.token),
     amount |-> event.amount,
     recipient |-> to_lowercase(event.recipient),
     metadata |-> event.metadata,
     chain_id |-> event.chain_id,
     tx_hash |-> to_lowercase(event.tx_hash),
     block_number |-> event.block_number,
     block_timestamp |-> event.block_timestamp,
     log_index |-> event.log_index,
     created_at |-> now_secs]

insert_crypto2fiat_event(table, event, now_secs) ==
    IF \E r \in table : /\ r.chain_id = event.chain_id
                        /\ r.tx_hash = to_lowercase(event.tx_hash)
                        /\ r.log_index = event.log_index
    THEN table
    ELSE table \cup {Crypto2FiatRow(event, now_secs)}

cleanup_old_crypto2fiat(table, now_secs, ttl_secs) ==
    { r \in table : ~(r.created_at < now_secs - ttl_secs) }

(***************************************************************************)
(* ChainPoller::extract_swap_details_from_transfers (poller.rs).  The maps *)
(* sent_by / received_by are HashMaps: the loop visits the senders in an   *)
(* arbitrary order and returns at the first that qualifies, so the result  *)
(* is any one of the qualifying senders.                                   *)
(***************************************************************************)
router_addresses ==
    {AGGREGATION_ROUTER_V6, AGGREGATION_ROUTER_V5, AGGREGATION_ROUTER_ZKSYNC}

Unresolved ==
    [maker |-> EmptyHex, maker_token |-> NullHex, taker_token |-> NullHex,
     maker_amount |-> NullHex, taker_amount |-> NullHex]

sent_by(ts, addr) == SelectSeq(ts, LAMBDA t : t.from_addr = addr)
received_by(ts, addr) == SelectSeq(ts, LAMBDA t : t.to_addr = addr)

\* the search that does not compare the two tokens
extract_swap_details_any_tokens(table, tx_hash) ==
    LET ts == get_transfers_by_tx_hash(table, tx_hash)
        senders == { ts[i].from_addr : i \in 1..Len(ts) }
        found == { addr \in senders :
                     /\ addr \notin router_addresses
                     /\ received_by(ts, addr) # << >> }
    IN IF found = {} THEN {Unresolved}
       ELSE { [maker |-> addr,
               maker_token |-> sent_by(ts, addr)[1].token,
               taker_token |-> received_by(ts, addr)[1].token,
               maker_amount |-> sent_by(ts, addr)[1].value,
               taker_amount |-> received_by(ts, addr)[1].value] : addr \in found }

extract_swap_details_from_transfers(table, tx_hash) ==
    LET ts == get_transfers_by_tx_hash(table, tx_hash)
        senders == { ts[i].from_addr : i \in 1..Len(ts) }
        found == { addr \in senders :
                     /\ addr \notin router_addresses
                     /\ received_by(ts, addr) # << >>
                     /\ sent_by(ts, addr)[1].token # received_by(ts, addr)[1].token }
    IN IF found = {} THEN {Unresolved}
       ELSE { [maker |-> addr,
               maker_token |-> sent_by(ts, addr)[1].token,
               taker_token |-> received_by(ts, addr)[1].token,
               maker_amount |-> sent_by(ts, addr)[1].value,
               taker_amount |-> received_by(ts, addr)[1].value] : addr \in found }

TtlSecs == 0                    \* TTL_SECS of this deployment
Now0 == TtlSecs                 \* the clock when the model starts
MaxConfirm == 1                 \* confirmation_blocks ranges over 0..MaxConfirm

Configs ==
    [reorg_safety_blocks : 0..MaxReorg,
     confirmation_blocks : 0..MaxConfirm,
     max_blocks_per_query : 1..MaxQuery,
     max_backfill_blocks : 0..MaxBackfill]

LogKey(l) == << l.block_number, l.log_index >>
KeysOf(logs) == { LogKey(logs[i]) : i \in 1..Len(logs) }

NoWindow == [from |-> -1, to |-> -1]
NoStartup == [kind |-> "none", head |-> -1, saved |-> -1, start_block |-> -1]
NoIter ==
    [result |-> "none", head |-> -1, last |-> -1, from |-> -1, to |-> -1,
     missed |-> {}]
NoSucc == [last |-> -1, earlier |-> -1]
NoCover == [inserted |-> {}, cancelled |-> NoWindow]

\* no request under way
NoCall ==
    [state |-> "idle", max_retries |-> 0, retry_base_delay_ms |-> 0,
     retries |-> 0, responses |-> << >>, delays |-> << >>, result |-> "none"]

\* Option<FusionPlusSwap> of get_fusion_plus_swap_by_hashlock, with the one
\* column process_escrow_withdrawal reads
NoSwap == [found |-> FALSE, src_chain_id |-> NullInt]

\* what a handler has looked up: the swap details of a router order, the
\* swap of a withdrawal
NoLookup == [details |-> Unresolved, swap |-> NoSwap]

\* no handler under way: the next log is entered at its beginning
NoTask == [at |-> "begin", lookup |-> NoLookup]

\* no run of cleanup_all under way
NoCleanup == [done |-> {}, shared |-> 0, began |-> -1, newest |-> -1]

\* nothing processed; track is what the history keeps ("none": nothing,
\* "once": the logs processed, "again": the kinds processed again as well,
\* "order": the logs processed and the order of the handlers, "late": the
\* logs processed and those whose handler found the swaps deleted)
Seen0(track) ==
    [track |-> track, once |-> [c \in Chains |-> {}], again |-> {},
     order |-> << >>, late |-> {}]
NoSeen == Seen0("none")

\* PollerConfig::default() (poller.rs 34-44), what ChainPoller::new uses
DefaultConfig ==
    [reorg_safety_blocks |-> 10,
     confirmation_blocks |-> 3,
     max_blocks_per_query |-> 100,
     max_backfill_blocks |-> 500]

\* The state after construction: the stores are empty (first run), no
\* poller task has started.
InitAt(cfgs, nets, logs, now_secs, track) ==
    /\ config \in cfgs
    /\ networks = nets
    /\ chain_logs = logs
    /\ head = [c \in Chains |-> Base]
    /\ now = now_secs
    /\ checkpoint = [c \in Chains |-> NoCheckpoint]
    /\ transfers = [c \in Chains |-> {}]
    /\ fusion_plus_swaps = {}
    /\ fusion_plus_seq = 0
    /\ fusion_swaps = {}
    /\ crypto2fiat_events = {}
    /\ pc = [c \in Chains |-> "start"]
    /\ last_processed_block = [c \in Chains |-> 0]
    /\ window = [c \in Chains |-> NoWindow]
    /\ queue = [c \in Chains |-> << >>]
    /\ block_timestamp_cache = [c \in Chains |-> {}]
    /\ startup = [c \in Chains |-> NoStartup]
    /\ iter = [c \in Chains |-> NoIter]
    /\ succ = [c \in Chains |-> NoSucc]
    /\ cover = [c \in Chains |-> NoCover]
    /\ seen = Seen0(track)
    /\ rpc_call = NoCall
    /\ task = [c \in Chains |-> NoTask]
    /\ cleanup = NoCleanup

\* the same when the clock reads Now0, with no history of the logs
InitWith(cfgs, nets, logs) == InitAt(cfgs, nets, logs, Now0, "none")

\* One poller built by ChainPoller::with_config, any configuration of the
\* model, on a chain holding LogsSolo.
Init ==
    InitWith(Configs, {ChainA},
             [c \in Chains |-> IF c = ChainA THEN LogsSolo ELSE << >>])

(***************************************************************************)
(* The environment: the chain grows, the clock advances.                   *)
(***************************************************************************)
AdvanceHead(c) ==
    /\ head[c] < MaxHead
    /\ head' = [head EXCEPT ![c] = @ + 1]
    /\ UNCHANGED << rpc_call, task, cleanup, cover, deployment, now, stored, pc, last_processed_block, window,
                    queue, block_timestamp_cache, startup, iter, succ,
                    seen >>

Tick ==
    /\ now < Now0 + MaxTicks
    /\ now' = now + 1
    /\ UNCHANGED << rpc_call, task, cleanup, cover, deployment, head, stored, pc, last_processed_block, window,
                    queue, block_timestamp_cache, startup, iter, succ,
                    seen >>

(***************************************************************************)
(* ChainPoller::initialize_checkpoint (poller.rs 118-171) as called by run *)
(* (73-91).  current_block is the head, saved the stored checkpoint.       *)
(***************************************************************************)
\* the saved checkpoint is not consulted: every start is a first start
initialize_checkpoint_ignoring_saved(current_block, saved, cfg) ==
    [kind |-> IF saved # NoCheckpoint THEN "resume" ELSE "first",
     write |-> TRUE,
     start_block |-> saturating_sub(current_block, cfg.reorg_safety_blocks)]

\* blocks_behind >= max_backfill_blocks instead of >
initialize_checkpoint_stale_at_limit(current_block, saved, cfg) ==
    IF saved # NoCheckpoint
    THEN IF saturating_sub(current_block, saved) >= cfg.max_backfill_blocks
         THEN [kind |-> "stale", write |-> TRUE,
               start_block |-> saturating_sub(current_block, cfg.reorg_safety_blocks)]
         ELSE [kind |-> "resume", write |-> FALSE, start_block |-> saved]
    ELSE [kind |-> "first", write |-> TRUE,
          start_block |-> saturating_sub(current_block, cfg.reorg_safety_blocks)]

\* a saved checkpoint that is resumed from continues one block above it
initialize_checkpoint_resume_above_saved(current_block, saved, cfg) ==
    IF saved # NoCheckpoint
    THEN IF saturating_sub(current_block, saved) > cfg.max_backfill_blocks
         THEN [kind |-> "stale", write |-> TRUE,
               start_block |-> saturating_sub(current_block, cfg.reorg_safety_blocks)]
         ELSE [kind |-> "resume", write |-> FALSE, start_block |-> saved + 1]
    ELSE [kind |-> "first", write |-> TRUE,
          start_block |-> saturating_sub(current_block, cfg.reorg_safety_blocks)]

initialize_checkpoint(current_block, saved, cfg) ==
    IF saved # NoCheckpoint
    THEN IF saturating_sub(current_block, saved) > cfg.max_backfill_blocks
         THEN [kind |-> "stale", write |-> TRUE,
               start_block |-> saturating_sub(current_block, cfg.reorg_safety_blocks)]
         ELSE [kind |-> "resume", write |-> FALSE, start_block |-> saved]
    ELSE [kind |-> "first", write |-> TRUE,
          start_block |-> saturating_sub(current_block, cfg.reorg_safety_blocks)]

\* initialize_checkpoint is three calls: get_block_number (119-123),
\* get_checkpoint (126-129) and, for a first start or a stale checkpoint,
\* set_checkpoint (143-145, 159-161).  The error of any of them makes run
\* log "Failed to initialize" and return (84-90).

\* get_block_number: current_block is kept in startup[c].head
StartHead(c, rpc_ok) ==
    /\ pc[c] = "start"
    /\ IF rpc_ok
       THEN /\ pc' = [pc EXCEPT ![c] = "init_read"]
            /\ startup' = [startup EXCEPT ![c] =
                   [NoStartup EXCEPT !.head = head[c]]]
       ELSE /\ pc' = [pc EXCEPT ![c] = "exited"]
            /\ UNCHANGED startup
    /\ UNCHANGED << rpc_call, task, cleanup, cover, deployment, head, now, stored,
                    last_processed_block, window, queue,
                    block_timestamp_cache, iter, succ, seen >>

\* get_checkpoint, then the choice of the start block; a checkpoint that
\* is resumed from is not written again
StartRead(c, get_ok) ==
    /\ pc[c] = "init_read"
    /\ LET r == initialize_checkpoint(startup[c].head, checkpoint[c], config)
           s == [kind |-> "none", head |-> startup[c].head,
                 saved |-> checkpoint[c], start_block |-> r.start_block]
       IN IF ~get_ok
          THEN /\ pc' = [pc EXCEPT ![c] = "exited"]
               /\ UNCHANGED << last_processed_block, startup >>
          ELSE IF r.write
          THEN /\ pc' = [pc EXCEPT ![c] = "init_write"]
               /\ startup' = [startup EXCEPT ![c] = s]
               /\ UNCHANGED last_processed_block
          ELSE /\ pc' = [pc EXCEPT ![c] = "idle"]
               /\ startup' = [startup EXCEPT ![c] = [s EXCEPT !.kind = r.kind]]
               /\ last_processed_block' =
                      [last_processed_block EXCEPT ![c] = r.start_block]
    /\ UNCHANGED << rpc_call, task, cleanup, cover, deployment, head, now, stored,
                    window, queue, block_timestamp_cache, iter, succ, seen >>

\* set_checkpoint of the start block
StartWrite(c, set_ok) ==
    /\ pc[c] = "init_write"
    /\ LET r == initialize_checkpoint(startup[c].head, startup[c].saved, config)
       IN IF set_ok
          THEN /\ checkpoint' = [checkpoint EXCEPT ![c] = r.start_block]
               /\ last_processed_block' =
                      [last_processed_block EXCEPT ![c] = r.start_block]
               /\ pc' = [pc EXCEPT ![c] = "idle"]
               /\ startup' = [startup EXCEPT ![c].kind = r.kind]
          ELSE /\ pc' = [pc EXCEPT ![c] = "exited"]
               /\ UNCHANGED << checkpoint, last_processed_block, startup >>
    /\ UNCHANGED << rpc_call, task, cleanup, cover, deployment, head, now, transfers,
                    fusion_plus_swaps, fusion_plus_seq, fusion_swaps,
                    crypto2fiat_events, window, queue, block_timestamp_cache,
                    iter, succ, seen >>

\* a step of initialize_checkpoint
Start(c, ok) == StartHead(c, ok) \/ StartRead(c, ok) \/ StartWrite(c, ok)

(***************************************************************************)
(* Event handlers (poller.rs 360-496, 564-609).  db is the part of the     *)
(* store a poller of chain_id reaches: its own transfers and the shared    *)
(* tables.  A handler makes up to three store calls, one after the other,  *)
(* and other tasks reach the store between them: "read" the lookup,        *)
(* "write" the insert or update, "label" the labelling.  An operator       *)
(* process_* is one step of its handler: at is where the handler stands    *)
(* ("begin": it is entered, decodes its payload and makes its first call;  *)
(* "write", "label": it makes that call), lookup what it has looked up,    *)
(* fail the set of the calls that return an error when they are made.  The *)
(* result is the store after the call, the lookup the handler holds, the   *)
(* call it makes next (next = "none": it has returned) and whether the     *)
(* step went well (of the last step: the handler returned Ok).             *)
(***************************************************************************)
Fails == SUBSET {"read", "write", "label"}
NoFail == {}

\* the part of the store the poller of chain c reaches
StoreOf(c) ==
    [transfers |-> transfers[c], fp |-> fusion_plus_swaps,
     seq |-> fusion_plus_seq, fs |-> fusion_swaps]

\* the handler returns, the handler goes on to its next call
Returns(db, ok) == [db |-> db, lookup |-> NoLookup, next |-> "none", ok |-> ok]
GoesOn(db, lookup, next, ok) ==
    [db |-> db, lookup |-> lookup, next |-> next, ok |-> ok]

Labelled(db, tx_hash, swap_type) ==
    [db EXCEPT !.transfers = label_transfers_as_fusion(@, tx_hash, swap_type)]

\* the last call of a handler: label_transfers_as_fusion
LabelCall(db, log, swap_type, fail) ==
    IF "label" \in fail THEN Returns(db, FALSE)
    ELSE Returns(Labelled(db, log.transaction_hash, swap_type), TRUE)

process_src_escrow_created(db, chain_id, log, timestamp, at, fail, now_secs) ==
    LET data == decode_src_escrow_created(log.data)
        swap == from_src_created(data, chain_id, log.transaction_hash,
                                 log.block_number, timestamp, log.log_index)
        ins == insert_fusion_plus_swap(db.fp, db.seq, swap, now_secs)
    IN IF at = "label" THEN LabelCall(db, log, "fusion_plus", fail)
       ELSE IF ~data.ok THEN Returns(db, FALSE)
       ELSE IF "write" \in fail THEN Returns(db, FALSE)
       ELSE GoesOn([db EXCEPT !.fp = ins.table, !.seq = ins.seq],
                   NoLookup, "label", TRUE)

process_dst_escrow_created(db, chain_id, log, timestamp, at, fail, now_secs) ==
    LET data == decode_dst_escrow_created(log.data)
    IN IF at = "label" THEN LabelCall(db, log, "fusion_plus", fail)
       ELSE IF ~data.ok THEN Returns(db, FALSE)
       ELSE IF "write" \in fail THEN Returns(db, FALSE)
       ELSE GoesOn([db EXCEPT !.fp =
                       update_fusion_plus_dst(@, data.order_hash, data, chain_id,
                           log.transaction_hash, log.block_number, timestamp,
                           log.log_index, log.address, now_secs)],
                   NoLookup, "label", TRUE)

\* poller.rs 441: if let Ok(Some(swap)) = get_fusion_plus_swap_by_hashlock;
\* an error of the lookup is taken for no swap
SwapLookup(db, hashlock, fail) ==
    IF "read" \in fail \/ HashlockMatches(db.fp, hashlock) = {} THEN NoSwap
    ELSE [found |-> TRUE,
          src_chain_id |->
              get_fusion_plus_swap_by_hashlock(db.fp, hashlock).src_chain_id]

\* a withdrawal that finds no swap returns before the labelling
process_escrow_withdrawal_known_only(db, chain_id, log, timestamp, at, lookup, fail, now_secs) ==
    LET dec == decode_escrow_withdrawal(log.data)
        hl == compute_hashlock_from_secret(dec.secret)
        swap == SwapLookup(db, hl.hashlock, fail)
        is_src == lookup.swap.src_chain_id = chain_id
    IN CASE at = "label" -> LabelCall(db, log, "fusion_plus", fail)
         [] at = "write" ->
              IF "write" \in fail THEN Returns(db, FALSE)
              ELSE GoesOn([db EXCEPT !.fp =
                              update_fusion_plus_withdrawal_by_hashlock(@,
                                  hl.hashlock, chain_id, is_src, dec.secret,
                                  log.transaction_hash, log.block_number,
                                  timestamp, log.log_index, now_secs)],
                          NoLookup, "label", TRUE)
         [] OTHER ->
              IF ~dec.ok THEN Returns(db, FALSE)
              ELSE IF ~hl.ok THEN Returns(db, FALSE)
              ELSE IF ~swap.found THEN Returns(db, "read" \notin fail)
              ELSE GoesOn(db, [NoLookup EXCEPT !.swap = swap], "write", TRUE)

process_escrow_withdrawal(db, chain_id, log, timestamp, at, lookup, fail, now_secs) ==
    LET dec == decode_escrow_withdrawal(log.data)
        hl == compute_hashlock_from_secret(dec.secret)
        swap == SwapLookup(db, hl.hashlock, fail)
        \* swap.src_chain_id of the swap the lookup returned
        is_src == lookup.swap.src_chain_id = chain_id
    IN CASE at = "label" -> LabelCall(db, log, "fusion_plus", fail)
         [] at = "write" ->
              IF "write" \in fail THEN Returns(db, FALSE)
              ELSE GoesOn([db EXCEPT !.fp =
                              update_fusion_plus_withdrawal_by_hashlock(@,
                                  hl.hashlock, chain_id, is_src, dec.secret,
                                  log.transaction_hash, log.block_number,
                                  timestamp, log.log_index, now_secs)],
                          NoLookup, "label", TRUE)
         [] OTHER ->
              IF ~dec.ok THEN Returns(db, FALSE)
              ELSE IF ~hl.ok THEN Returns(db, FALSE)
              ELSE GoesOn(db, [NoLookup EXCEPT !.swap = swap],
                          IF swap.found THEN "write" ELSE "label",
                          "read" \notin fail)

\* the handler that also marks the swaps of its chain as cancelled
process_escrow_cancelled_marking(db, chain_id, log, timestamp, at, fail, now_secs) ==
    LabelCall([db EXCEPT !.fp =
                  { IF r.src_chain_id = chain_id
                    THEN [r EXCEPT !.src_status = "cancelled",
                                   !.updated_at = now_secs]
                    ELSE r : r \in @ }],
              log, "fusion_plus", fail)

\* the labelling is the only call
process_escrow_cancelled(db, chain_id, log, timestamp, at, fail, now_secs) ==
    LabelCall(db, log, "fusion_plus", fail)

\* the results extract_swap_details_from_transfers may return
SwapDetails(db, log, fail) ==
    IF "read" \in fail THEN {Unresolved}      \* get_transfers_by_tx_hash: Err(_)
    ELSE extract_swap_details_from_transfers(db.transfers, log.transaction_hash)

\* extract_swap_details_from_transfers goes through a HashMap: every result
\* it may return is a result of the first step
process_order_filled(db, chain_id, log, timestamp, status, at, lookup, fail, now_secs) ==
    LET data == decode_order_filled(log.topics, log.data)
        is_partial == data.remaining.id # "zero"
        details == lookup.details
        swap == [order_hash |-> data.order_hash,
                 chain_id |-> chain_id,
                 tx_hash |-> log.transaction_hash,
                 block_number |-> log.block_number,
                 block_timestamp |-> timestamp,
                 log_index |-> log.log_index,
                 maker |-> details.maker,
                 maker_token |-> details.maker_token,
                 taker_token |-> details.taker_token,
                 maker_amount |-> details.maker_amount,
                 taker_amount |-> details.taker_amount,
                 remaining |-> data.remaining,
                 is_partial_fill |-> is_partial,
                 status |-> status]
    IN CASE at = "label" -> {LabelCall(db, log, "fusion", fail)}
         [] at = "write" ->
              IF "write" \in fail THEN {Returns(db, FALSE)}
              ELSE {GoesOn([db EXCEPT !.fs = insert_fusion_swap(@, swap, now_secs)],
                           NoLookup, "label", TRUE)}
         [] OTHER ->
              IF ~data.ok THEN {Returns(db, FALSE)}
              ELSE { GoesOn(db, [NoLookup EXCEPT !.details = d], "write",
                            "read" \notin fail) : d \in SwapDetails(db, log, fail) }

\* The dispatch of poll_fusion_plus_events (298-310, 334-346) and of
\* poll_fusion_events (538-550) on the lowercased topic0: the results one
\* step of the handler of log may have.
Dispatch(db, chain_id, log, timestamp, stage, at, lookup, fail, now_secs) ==
    LET topic0 == to_lowercase(log.topics[1])
    IN CASE stage = "factory" /\ topic0 = SRC_ESCROW_CREATED_TOPIC ->
              {process_src_escrow_created(db, chain_id, log, timestamp, at,
                                          fail, now_secs)}
         [] stage = "factory" /\ topic0 = DST_ESCROW_CREATED_TOPIC ->
              {process_dst_escrow_created(db, chain_id, log, timestamp, at,
                                          fail, now_secs)}
         [] stage = "escrow" /\ topic0 = ESCROW_WITHDRAWAL_TOPIC ->
              {process_escrow_withdrawal(db, chain_id, log, timestamp, at,
                                         lookup, fail, now_secs)}
         [] stage = "escrow" /\ topic0 = ESCROW_CANCELLED_TOPIC ->
              {process_escrow_cancelled(db, chain_id, log, timestamp, at,
                                        fail, now_secs)}
         [] stage = "router" /\ topic0 = ORDER_FILLED_TOPIC ->
              process_order_filled(db, chain_id, log, timestamp, "filled",
                                   at, lookup, fail, now_secs)
         [] stage = "router" /\ topic0 = ORDER_CANCELLED_TOPIC ->
              process_order_filled(db, chain_id, log, timestamp, "cancelled",
                                   at, lookup, fail, now_secs)
         [] OTHER -> {Returns(db, TRUE)}

\* A handler run that nothing interleaves and that reads the clock once:
\* the stores it may leave and whether it returned Ok.
RECURSIVE HandlerRun(_, _, _, _, _, _, _, _, _)
HandlerRun(db, chain_id, log, timestamp, stage, at, lookup, fail, now_secs) ==
    UNION { IF r.next = "none" THEN {[db |-> r.db, ok |-> r.ok]}
            ELSE HandlerRun(r.db, chain_id, log, timestamp, stage, r.next,
                            r.lookup, fail, now_secs) :
            r \in Dispatch(db, chain_id, log, timestamp, stage, at, lookup,
                           fail, now_secs) }

(***************************************************************************)
(* ChainPoller::poll_once (poller.rs 174-269) and the loop of run (94-114) *)
(***************************************************************************)
\* the range with the first block taken at last instead of last + 1
poll_window_from_last(last, current_block, cfg) ==
    LET to_block == saturating_sub(current_block, cfg.confirmation_blocks)
        from_block == Max(last, saturating_sub(last, cfg.reorg_safety_blocks))
    IN [from |-> from_block,
        skip |-> from_block > to_block,
        to |-> Min(from_block + cfg.max_blocks_per_query - 1, to_block)]

\* the range without the limit of max_blocks_per_query
poll_window_unlimited(last, current_block, cfg) ==
    LET to_block == saturating_sub(current_block, cfg.confirmation_blocks)
        from_block == Max(last + 1,
                          saturating_sub(last, cfg.reorg_safety_blocks) + 1)
    IN [from |-> from_block,
        skip |-> from_block > to_block,
        to |-> to_block]

\* lines 183-196: the block range of an iteration
poll_window(last, current_block, cfg) ==
    LET to_block == saturating_sub(current_block, cfg.confirmation_blocks)
        from_block == Max(last + 1,
                          saturating_sub(last, cfg.reorg_safety_blocks) + 1)
    IN [from |-> from_block,
        skip |-> from_block > to_block,
        to |-> Min(from_block + cfg.max_blocks_per_query - 1, to_block)]

\* log.data as one string: the words of the payload one after the other
\* behind "0x".  A payload of one word is that word; an empty payload is
\* the string "0x", which is not the empty string.
DataString(data) ==
    IF Len(data) = 1 THEN data[1]
    ELSE [id |-> [i \in 1..Len(data) |-> data[i].id],
          lower |-> \A i \in 1..Len(data) : data[i].lower]

\* lines 232-242: the Transfer built from a log; value is log.data.clone(),
\* the whole payload
TransferOf(chain_id, log, timestamp) ==
    [chain_id |-> chain_id,
     tx_hash |-> log.transaction_hash,
     log_index |-> log.log_index,
     token |-> to_lowercase(log.address),
     from_addr |-> log.topics[2],
     to_addr |-> log.topics[3],
     value |-> DataString(log.data),
     block_number |-> log.block_number,
     block_timestamp |-> timestamp]

\* lines 223-227: logs with fewer than 3 topics are skipped
ValidTransferLogs(logs) == SelectSeq(logs, LAMBDA l : Len(l.topics) >= 3)

RECURSIVE TransfersOf(_, _)
TransfersOf(chain_id, logs) ==
    IF logs = << >> THEN << >>
    ELSE <<TransferOf(chain_id, Head(logs),
                      BlockTimestamp(chain_id, Head(logs).block_number))>>
         \o TransfersOf(chain_id, Tail(logs))

\* the cache is left as it is
cleanup_timestamp_cache_keeping(cache, current_block) == cache

\* lines 707-712
cleanup_timestamp_cache(cache, current_block) ==
    { b \in cache : b >= saturating_sub(current_block, CacheKeepBlocks) }

router_address(chain_id) ==
    IF chain_id = 324 THEN AGGREGATION_ROUTER_ZKSYNC ELSE AGGREGATION_ROUTER_V6

FactoryLogs(c, w) ==
    get_logs_multi_topics(c, w.from, w.to, ESCROW_FACTORY,
                          {SRC_ESCROW_CREATED_TOPIC, DST_ESCROW_CREATED_TOPIC})
EscrowLogs(c, w) ==
    get_logs_multi_topics_any_address(c, w.from, w.to,
                          {ESCROW_WITHDRAWAL_TOPIC, ESCROW_CANCELLED_TOPIC})
RouterLogs(c, w) ==
    get_logs_multi_topics(c, w.from, w.to, router_address(c),
                          {ORDER_FILLED_TOPIC, ORDER_CANCELLED_TOPIC})

\* poll_once has its block range and has not returned
InIteration(c) ==
    pc[c] \in {"logs", "transfers", "fetch", "factory", "escrow", "router"}

\* the iteration returns (Ok or Err) to run: the cache is trimmed and the
\* task sleeps until the next tick
Returned(c, last, cache) ==
    /\ pc' = [pc EXCEPT ![c] = "idle"]
    /\ last_processed_block' = [last_processed_block EXCEPT ![c] = last]
    /\ block_timestamp_cache' =
           [block_timestamp_cache EXCEPT ![c] = cleanup_timestamp_cache(cache, last)]
    /\ window' = [window EXCEPT ![c] = NoWindow]
    /\ queue' = [queue EXCEPT ![c] = << >>]

\* the iteration returns Err(..) to run before it has changed anything
Failed(c, result) ==
    /\ iter' = [iter EXCEPT ![c].result = result]
    /\ Returned(c, last_processed_block[c], block_timestamp_cache[c])

\* poll_once is a task of the runtime: it gives way at every await of an
\* RPC and the store is reached by every task between two of its store
\* calls.  One action is one call of the RPC or of the store with what
\* poll_once does on its own before the next call.

\* lines 175-196: get_block_number, then the block range
PollHead(c, rpc_ok) ==
    /\ pc[c] = "idle"
    /\ LET last == last_processed_block[c]
           w == poll_window(last, head[c], config)
           it0 == [result |-> "running", head |-> head[c], last |-> last,
                   from |-> w.from,
                   to |-> IF w.skip THEN -1 ELSE w.to, missed |-> {}]
       IN IF ~rpc_ok
          THEN /\ iter' = [iter EXCEPT ![c] =
                      [it0 EXCEPT !.result = "rpc_failed", !.head = -1,
                                  !.from = -1, !.to = -1]]
               /\ Returned(c, last, block_timestamp_cache[c])
          ELSE IF w.skip
          THEN /\ iter' = [iter EXCEPT ![c] = [it0 EXCEPT !.result = "skipped"]]
               /\ Returned(c, last, block_timestamp_cache[c])
          ELSE /\ iter' = [iter EXCEPT ![c] = it0]
               /\ pc' = [pc EXCEPT ![c] = "logs"]
               /\ window' = [window EXCEPT ![c] = [from |-> w.from, to |-> w.to]]
               /\ UNCHANGED << last_processed_block, queue,
                               block_timestamp_cache >>
    /\ UNCHANGED << rpc_call, task, cleanup, cover, deployment, head, now, stored,
                    startup, succ, seen >>

\* lines 223-227 on the answer of get_transfer_logs for the range in hand
WindowTransferLogs(c) ==
    ValidTransferLogs(get_transfer_logs(c, window[c].from, window[c].to))

\* the block of the first Transfer log whose timestamp is not cached, 0 if
\* there is none: the block the loop of lines 221-243 asks the RPC for next
NextUncached(c) ==
    LET logs == WindowTransferLogs(c)
        asks == { i \in 1..Len(logs) :
                    logs[i].block_number \notin block_timestamp_cache[c] }
    IN IF asks = {} THEN 0
       ELSE logs[CHOOSE i \in asks : \A j \in asks : i <= j].block_number

\* history: the logs of keys, of the given kind, were processed by the
\* poller of chain c
Noted(s, c, keys, kind) ==
    IF s.track = "none" THEN s
    ELSE [s EXCEPT !.once[c] = @ \cup keys,
                   !.again = IF s.track = "again" /\ keys \cap s.once[c] # {}
                             THEN @ \cup {kind} ELSE @]

\* history: a step of the handler of log on chain c, which entered the
\* handler or not, after which the handler has returned or not, with Ok
\* or not.  A log is noted when its handler returns Ok; the order holds
\* the first time a log is entered ("in") and left ("out"); a log is late
\* when its handler is entered while fusion_plus_swaps, which has held a
\* row, holds none.
Heard(s, c, log, entered, returned, ok) ==
    LET Mark(o, m) ==
            IF \E n \in DOMAIN o : o[n] = <<c, LogKey(log), m>> THEN o
            ELSE Append(o, <<c, LogKey(log), m>>)
        o1 == IF entered THEN Mark(s.order, "in") ELSE s.order
        o2 == IF returned THEN Mark(o1, "out") ELSE o1
        s1 == IF returned /\ ok
              THEN Noted(s, c, {LogKey(log)}, to_lowercase(log.topics[1]).id)
              ELSE s
    IN IF s.track = "order" THEN [s1 EXCEPT !.order = o2]
       ELSE IF /\ s.track = "late" /\ entered
               /\ fusion_plus_swaps = {} /\ fusion_plus_seq > 0
       THEN [s1 EXCEPT !.late = @ \cup {<<c, LogKey(log)>>}]
       ELSE s1

\* lines 203-207: get_transfer_logs.  With no Transfer to insert the batch
\* insert is left out (246-254).
PollTransferLogs(c, rpc_ok) ==
    /\ pc[c] = "logs"
    /\ IF ~rpc_ok
       THEN Failed(c, "rpc_failed") /\ UNCHANGED cover
       ELSE /\ IF WindowTransferLogs(c) = << >>
               THEN /\ pc' = [pc EXCEPT ![c] = "fetch"]
                    /\ cover' = [cover EXCEPT ![c].inserted =
                           @ \cup (window[c].from .. window[c].to)]
               ELSE /\ pc' = [pc EXCEPT ![c] = "transfers"]
                    /\ UNCHANGED cover
            /\ UNCHANGED << iter, last_processed_block, window, queue,
                            block_timestamp_cache >>
    /\ UNCHANGED << rpc_call, task, cleanup, deployment, head, now, stored,
                    startup, succ, seen >>

\* get_block_timestamp (poller.rs 685-705) when the block is not cached:
\* get_block, whose answer is cached.  It is called for the Transfer logs
\* (230) and for the log a dispatch loop has reached (296, 332, 536); its
\* error ends the iteration.
GetBlockTimestamp(c, rpc_ok) ==
    /\ \/ pc[c] = "transfers" /\ NextUncached(c) # 0
       \/ /\ pc[c] \in {"factory", "escrow", "router"}
          /\ queue[c] # << >>
          /\ Head(queue[c]).block_number \notin block_timestamp_cache[c]
    /\ LET block == IF pc[c] = "transfers" THEN NextUncached(c)
                    ELSE Head(queue[c]).block_number
       IN IF rpc_ok
          THEN /\ block_timestamp_cache' =
                      [block_timestamp_cache EXCEPT ![c] = @ \cup {block}]
               /\ UNCHANGED << iter, pc, last_processed_block, window, queue >>
          ELSE Failed(c, "rpc_failed")
    /\ UNCHANGED << rpc_call, task, cleanup, cover, deployment, head, now, stored,
                    startup, succ, seen >>

\* lines 246-254: insert_transfers_batch, one transaction
InsertTransfers(c, insert_ok) ==
    /\ pc[c] = "transfers"
    /\ NextUncached(c) = 0
    /\ IF insert_ok
       THEN /\ transfers' = [transfers EXCEPT ![c] =
                   insert_transfers_batch(@,
                       TransfersOf(c, WindowTransferLogs(c)), now)]
            /\ pc' = [pc EXCEPT ![c] = "fetch"]
            /\ cover' = [cover EXCEPT ![c].inserted =
                   @ \cup (window[c].from .. window[c].to)]
            /\ seen' = Noted(seen, c, KeysOf(WindowTransferLogs(c)),
                             TRANSFER_TOPIC.id)
            /\ UNCHANGED << iter, last_processed_block, window, queue,
                            block_timestamp_cache >>
       ELSE /\ Failed(c, "insert_failed")
            /\ UNCHANGED << transfers, cover, seen >>
    /\ UNCHANGED << rpc_call, task, cleanup, deployment, head, now, checkpoint,
                    fusion_plus_swaps, fusion_plus_seq, fusion_swaps,
                    crypto2fiat_events, startup, succ >>

\* lines 283-287: the factory logs, an empty list when the fetch fails
FetchFactory(c, fetch_ok) ==
    /\ pc[c] = "fetch"
    /\ LET fetched == FactoryLogs(c, window[c])
       IN /\ queue' = [queue EXCEPT ![c] = IF fetch_ok THEN fetched ELSE << >>]
          /\ iter' = [iter EXCEPT ![c].missed =
                 IF fetch_ok THEN @ ELSE @ \cup KeysOf(fetched)]
    /\ pc' = [pc EXCEPT ![c] = "factory"]
    /\ UNCHANGED << rpc_call, task, cleanup, cover, deployment, head, now, stored,
                    last_processed_block, window, block_timestamp_cache,
                    startup, succ, seen >>

\* the store after a step of a handler of chain c
StoreAfter(c, db) ==
    /\ transfers' = [transfers EXCEPT ![c] = db.transfers]
    /\ fusion_plus_swaps' = db.fp
    /\ fusion_plus_seq' = db.seq
    /\ fusion_swaps' = db.fs

\* the set fail of a step whose call succeeds or not
CallFails(ok) == IF ok THEN NoFail ELSE {"read", "write", "label"}

\* a dispatch loop that returns the error of a handler to poll_once
ProcessLogAborting(c, ok) ==
    /\ pc[c] \in {"factory", "escrow", "router"}
    /\ queue[c] # << >>
    /\ Head(queue[c]).block_number \in block_timestamp_cache[c]
    /\ LET log == Head(queue[c])
       IN \E r \in Dispatch(StoreOf(c), c, log,
                            BlockTimestamp(c, log.block_number), pc[c],
                            task[c].at, task[c].lookup, CallFails(ok), now) :
            /\ r.db.seq <= MaxSeq
            /\ StoreAfter(c, r.db)
            /\ task' = [task EXCEPT ![c] =
                   IF r.next = "none" THEN NoTask
                   ELSE [at |-> r.next, lookup |-> r.lookup]]
            /\ seen' = Heard(seen, c, log, task[c].at = "begin",
                             r.next = "none", r.ok)
            /\ IF r.next = "none" /\ ~r.ok
               THEN /\ iter' = [iter EXCEPT ![c].result = "handler_failed",
                                            ![c].missed = @ \cup {LogKey(log)}]
                    /\ Returned(c, last_processed_block[c],
                                block_timestamp_cache[c])
               ELSE /\ queue' = [queue EXCEPT ![c] =
                           IF r.next = "none" THEN Tail(@) ELSE @]
                    /\ iter' = [iter EXCEPT ![c].missed =
                           IF r.ok THEN @ ELSE @ \cup {LogKey(log)}]
                    /\ UNCHANGED << pc, last_processed_block, window,
                                    block_timestamp_cache >>
    /\ UNCHANGED << rpc_call, cleanup, cover, deployment, head, now, checkpoint,
                    crypto2fiat_events, startup, succ >>

\* One step of a turn of a dispatch loop (291-311, 327-347, 530-551), once
\* the timestamp of the log's block is there: one step of the handler of
\* the log, that is one store call, or its return at a payload that does
\* not decode.  A handler's error is logged and the loop goes on with the
\* next log.  A step that would hand out an id above MaxSeq is left out.
ProcessLog(c, ok) ==
    /\ pc[c] \in {"factory", "escrow", "router"}
    /\ queue[c] # << >>
    /\ Head(queue[c]).block_number \in block_timestamp_cache[c]
    /\ LET log == Head(queue[c])
       IN \E r \in Dispatch(StoreOf(c), c, log,
                            BlockTimestamp(c, log.block_number), pc[c],
                            task[c].at, task[c].lookup, CallFails(ok), now) :
            /\ r.db.seq <= MaxSeq
            /\ StoreAfter(c, r.db)
            /\ task' = [task EXCEPT ![c] =
                   IF r.next = "none" THEN NoTask
                   ELSE [at |-> r.next, lookup |-> r.lookup]]
            /\ queue' = [queue EXCEPT ![c] =
                   IF r.next = "none" THEN Tail(@) ELSE @]
            /\ iter' = [iter EXCEPT ![c].missed =
                   IF r.ok THEN @ ELSE @ \cup {LogKey(log)}]
            /\ seen' = Heard(seen, c, log, task[c].at = "begin",
                             r.next = "none", r.ok)
    /\ UNCHANGED << rpc_call, cleanup, cover, deployment, head, now, checkpoint,
                    crypto2fiat_events, startup, succ, pc,
                    last_processed_block, window, block_timestamp_cache >>

\* lines 321-325: the escrow logs, an empty list when the fetch fails
FetchEscrow(c, fetch_ok) ==
    /\ pc[c] = "factory"
    /\ queue[c] = << >>
    /\ LET fetched == EscrowLogs(c, window[c])
       IN /\ queue' = [queue EXCEPT ![c] = IF fetch_ok THEN fetched ELSE << >>]
          /\ iter' = [iter EXCEPT ![c].missed =
                 IF fetch_ok THEN @ ELSE @ \cup KeysOf(fetched)]
    /\ pc' = [pc EXCEPT ![c] = "escrow"]
    /\ UNCHANGED << rpc_call, task, cleanup, cover, deployment, head, now, stored, last_processed_block, window,
                    block_timestamp_cache, startup, succ, seen >>

\* the checkpoint written when the router logs are fetched, before they
\* are dispatched
FetchRouterCommitting(c, fetch_ok) ==
    /\ pc[c] = "escrow"
    /\ queue[c] = << >>
    /\ LET fetched == RouterLogs(c, window[c])
       IN /\ queue' = [queue EXCEPT ![c] = IF fetch_ok THEN fetched ELSE << >>]
          /\ iter' = [iter EXCEPT ![c].missed =
                 IF fetch_ok THEN @ ELSE @ \cup KeysOf(fetched)]
    /\ pc' = [pc EXCEPT ![c] = "router"]
    /\ checkpoint' = [checkpoint EXCEPT ![c] = window[c].to]
    /\ UNCHANGED << rpc_call, task, cleanup, cover, deployment, head, now, transfers,
                    fusion_plus_swaps, fusion_plus_seq, fusion_swaps,
                    crypto2fiat_events, last_processed_block, window,
                    block_timestamp_cache, startup, succ, seen >>

\* lines 522-526: the router logs, an empty list when the fetch fails
FetchRouter(c, fetch_ok) ==
    /\ pc[c] = "escrow"
    /\ queue[c] = << >>
    /\ LET fetched == RouterLogs(c, window[c])
       IN /\ queue' = [queue EXCEPT ![c] = IF fetch_ok THEN fetched ELSE << >>]
          /\ iter' = [iter EXCEPT ![c].missed =
                 IF fetch_ok THEN @ ELSE @ \cup KeysOf(fetched)]
    /\ pc' = [pc EXCEPT ![c] = "router"]
    /\ UNCHANGED << rpc_call, task, cleanup, cover, deployment, head, now, stored, last_processed_block, window,
                    block_timestamp_cache, startup, succ, seen >>

\* the checkpoint written to one row that every chain reads
CommitSharedCheckpoint(c, set_ok) ==
    /\ pc[c] = "router"
    /\ queue[c] = << >>
    /\ IF set_ok
       THEN /\ checkpoint' = [d \in Chains |-> window[c].to]
            /\ iter' = [iter EXCEPT ![c].result = "ok"]
            /\ succ' = [succ EXCEPT ![c] =
                   [last |-> window[c].to, earlier |-> Max(@.earlier, @.last)]]
            /\ Returned(c, window[c].to, block_timestamp_cache[c])
       ELSE /\ iter' = [iter EXCEPT ![c].result = "checkpoint_failed"]
            /\ Returned(c, window[c].to, block_timestamp_cache[c])
            /\ UNCHANGED << checkpoint, succ >>
    /\ UNCHANGED << rpc_call, task, cleanup, cover, deployment, head, now, transfers, fusion_plus_swaps,
                    fusion_plus_seq, fusion_swaps, crypto2fiat_events,
                    startup, seen >>

\* lines 262-268: last_processed_block is assigned, then the checkpoint is
\* written; set_checkpoint may fail
Commit(c, set_ok) ==
    /\ pc[c] = "router"
    /\ queue[c] = << >>
    /\ IF set_ok
       THEN /\ checkpoint' = [checkpoint EXCEPT ![c] = window[c].to]
            /\ iter' = [iter EXCEPT ![c].result = "ok"]
            /\ succ' = [succ EXCEPT ![c] =
                   [last |-> window[c].to, earlier |-> Max(@.earlier, @.last)]]
            /\ Returned(c, window[c].to, block_timestamp_cache[c])
       ELSE /\ iter' = [iter EXCEPT ![c].result = "checkpoint_failed"]
            /\ Returned(c, window[c].to, block_timestamp_cache[c])
            /\ UNCHANGED << checkpoint, succ >>
    /\ UNCHANGED << rpc_call, task, cleanup, cover, deployment, head, now, transfers, fusion_plus_swaps,
                    fusion_plus_seq, fusion_swaps, crypto2fiat_events,
                    startup, seen >>

(***************************************************************************)
(* The process is stopped and started again (main.rs 111-135 after a stop, *)
(* 140-159): every task starts over, the pollers with a fresh ChainPoller; *)
(* what was persisted stays.                                               *)
(***************************************************************************)
Restart ==
    /\ \E c \in networks : pc[c] # "start"
    /\ pc' = [c \in Chains |-> "start"]
    /\ last_processed_block' = [c \in Chains |-> 0]
    /\ window' = [c \in Chains |-> NoWindow]
    /\ queue' = [c \in Chains |-> << >>]
    /\ block_timestamp_cache' = [c \in Chains |-> {}]
    /\ startup' = [c \in Chains |-> NoStartup]
    /\ iter' = [c \in Chains |-> NoIter]
    /\ succ' = [c \in Chains |-> NoSucc]
    /\ cover' = [c \in Chains |->
           [inserted |-> {},
            cancelled |-> IF InIteration(c) THEN window[c] ELSE NoWindow]]
    /\ task' = [c \in Chains |-> NoTask]
    /\ cleanup' = NoCleanup
    /\ UNCHANGED << rpc_call, deployment, head, now, stored, seen >>

(***************************************************************************)
(* The cleanup task (main.rs 66-109) calling DatabaseManager::cleanup_all  *)
(* (db.rs 1434-1446): the chain stores in the order of a HashMap, then the *)
(* three shared tables; the first error ends the run.  Every call reads    *)
(* the clock itself (db.rs 248, 923, 1211, 1366) and is one DELETE; the    *)
(* pollers and the clock go on between two calls.  cleanup.done is the set *)
(* of chain stores the run has cleaned, cleanup.shared the number of       *)
(* shared tables, cleanup.began the clock read by the first call of the    *)
(* run, cleanup.newest the greatest created_at of the rows the run has     *)
(* deleted (-1: none); ttl_secs is the lifetime.                           *)
(***************************************************************************)
\* the greatest created_at of the rows of before that are not in after, or
\* sofar when that is greater
NewestGone(before, after, sofar) ==
    LET gone == { r.created_at : r \in before \ after } \cup {sofar}
    IN CHOOSE a \in gone : \A b \in gone : b <= a

CleanupFrame ==
    UNCHANGED << rpc_call, task, cover, deployment, head, now, checkpoint,
                 fusion_plus_seq, pc, last_processed_block, window, queue,
                 block_timestamp_cache, startup, iter, succ, seen >>

\* db.cleanup_old(ttl_secs) of one chain store (1437-1439); ok is whether
\* the call succeeds
CleanupChain(c, ttl_secs, ok) ==
    /\ c \in networks \ cleanup.done
    /\ IF ok
       THEN /\ transfers' = [transfers EXCEPT ![c] = cleanup_old(@, now, ttl_secs)]
            /\ cleanup' = [cleanup EXCEPT
                   !.done = @ \cup {c},
                   !.began = IF @ = -1 THEN now ELSE @,
                   !.newest = NewestGone(transfers[c], transfers'[c], @)]
       ELSE /\ cleanup' = NoCleanup
            /\ UNCHANGED transfers
    /\ UNCHANGED << fusion_plus_swaps, fusion_swaps, crypto2fiat_events >>
    /\ CleanupFrame

\* shared.cleanup_old_fusion_plus(ttl_secs) (1441)
CleanupFusionPlus(ttl_secs, ok) ==
    /\ cleanup.done = networks
    /\ cleanup.shared = 0
    /\ IF ok
       THEN /\ fusion_plus_swaps' =
                   cleanup_old_fusion_plus(fusion_plus_swaps, now, ttl_secs)
            /\ cleanup' = [cleanup EXCEPT
                   !.shared = 1,
                   !.newest = NewestGone(fusion_plus_swaps,
                                         fusion_plus_swaps', @)]
       ELSE /\ cleanup' = NoCleanup
            /\ UNCHANGED fusion_plus_swaps
    /\ UNCHANGED << transfers, fusion_swaps, crypto2fiat_events >>
    /\ CleanupFrame

\* shared.cleanup_old_fusion_swaps(ttl_secs) (1442)
CleanupFusionSwaps(ttl_secs, ok) ==
    /\ cleanup.shared = 1
    /\ IF ok
       THEN /\ fusion_swaps' =
                   cleanup_old_fusion_swaps(fusion_swaps, now, ttl_secs)
            /\ cleanup' = [cleanup EXCEPT
                   !.shared = 2,
                   !.newest = NewestGone(fusion_swaps, fusion_swaps', @)]
       ELSE /\ cleanup' = NoCleanup
            /\ UNCHANGED fusion_swaps
    /\ UNCHANGED << transfers, fusion_plus_swaps, crypto2fiat_events >>
    /\ CleanupFrame

\* shared.cleanup_old_crypto2fiat(ttl_secs) (1443), the last call of a run
CleanupCrypto2Fiat(ttl_secs, ok) ==
    /\ cleanup.shared = 2
    /\ crypto2fiat_events' =
           IF ok THEN cleanup_old_crypto2fiat(crypto2fiat_events, now, ttl_secs)
           ELSE crypto2fiat_events
    /\ cleanup' = NoCleanup
    /\ UNCHANGED << transfers, fusion_plus_swaps, fusion_swaps >>
    /\ CleanupFrame

\* one call of a run of cleanup_all for a lifetime of ttl_secs
CleanupRun(ttl_secs) ==
    \E ok \in BOOLEAN :
        \/ \E c \in networks : CleanupChain(c, ttl_secs, ok)
        \/ CleanupFusionPlus(ttl_secs, ok)
        \/ CleanupFusionSwaps(ttl_secs, ok)
        \/ CleanupCrypto2Fiat(ttl_secs, ok)

CleanupAll == CleanupRun(TtlSecs)

Next ==
    \/ \E c \in networks, ok \in BOOLEAN : Start(c, ok)
    \/ \E c \in networks, ok \in BOOLEAN : PollHead(c, ok)
    \/ \E c \in networks, ok \in BOOLEAN : PollTransferLogs(c, ok)
    \/ \E c \in networks, ok \in BOOLEAN : GetBlockTimestamp(c, ok)
    \/ \E c \in networks, ok \in BOOLEAN : InsertTransfers(c, ok)
    \/ \E c \in networks, ok \in BOOLEAN : FetchFactory(c, ok)
    \/ \E c \in networks, ok \in BOOLEAN : ProcessLog(c, ok)
    \/ \E c \in networks, ok \in BOOLEAN : FetchEscrow(c, ok)
    \/ \E c \in networks, ok \in BOOLEAN : FetchRouter(c, ok)
    \/ \E c \in networks, ok \in BOOLEAN : Commit(c, ok)
    \/ \E c \in networks : AdvanceHead(c)
    \/ Tick
    \/ Restart
    \/ CleanupAll

Spec == Init /\ [][Next]_vars

(***************************************************************************)
(* The tasks main spawns (main.rs 111-135): a step of the poller task of   *)
(* a chain is the call the task has reached.                               *)
(***************************************************************************)
\* a step of the poller task of chain c: the call it has reached, which
\* succeeds (ok) or returns an error
PollerCall(c, ok) ==
    \/ Start(c, ok)
    \/ PollHead(c, ok)
    \/ PollTransferLogs(c, ok)
    \/ GetBlockTimestamp(c, ok)
    \/ InsertTransfers(c, ok)
    \/ FetchFactory(c, ok)
    \/ ProcessLog(c, ok)
    \/ FetchEscrow(c, ok)
    \/ FetchRouter(c, ok)
    \/ Commit(c, ok)

\* a step of the poller task of chain c, whatever its call returns
PollerStep(c) == \E ok \in BOOLEAN : PollerCall(c, ok)

\* a step of the poller task of chain c whose call succeeds
PollerStepOk(c) == PollerCall(c, TRUE)

\* a configuration with which a poller started at head Base reads the
\* blocks from Base on
IndepConfig ==
    [reorg_safety_blocks |-> 1,
     confirmation_blocks |-> 0,
     max_blocks_per_query |-> MaxQuery,
     max_backfill_blocks |-> MaxBackfill]

\* the fetch of poll_fusion_plus_events / poll_fusion_events that returns log
StageOf(c, log) ==
    IF /\ to_lowercase(log.address) = ESCROW_FACTORY
       /\ Topic0In(log, {SRC_ESCROW_CREATED_TOPIC, DST_ESCROW_CREATED_TOPIC})
    THEN "factory"
    ELSE IF Topic0In(log, {ESCROW_WITHDRAWAL_TOPIC, ESCROW_CANCELLED_TOPIC})
    THEN "escrow"
    ELSE IF /\ to_lowercase(log.address) = router_address(c)
            /\ Topic0In(log, {ORDER_FILLED_TOPIC, ORDER_CANCELLED_TOPIC})
    THEN "router"
    ELSE "none"

\* this step is a step of the handler of log in a dispatch loop of the
\* poller of chain c
Processes(c, log) ==
    /\ queue[c] # << >>
    /\ Head(queue[c]) = log
    /\ \E ok \in BOOLEAN : ProcessLog(c, ok)

\* this step is the batch insert of the Transfer logs of the range of the
\* poller of chain c
InsertsTransfers(c) == \E ok \in BOOLEAN : InsertTransfers(c, ok)

(***************************************************************************)
(* Two pollers on the two chains of one swap, LogsA and LogsB, which hold  *)
(* every kind of log a poller handles in the block at the head.  Every     *)
(* call of a poller succeeds; the process may be stopped and started again *)
(* at any time (main.rs 137-159), so that a range whose checkpoint was not *)
(* written is processed again.  The cleanup task has not run (main.rs 69:  *)
(* it sleeps first).                                                       *)
(***************************************************************************)
InitStore ==
    InitAt({IndepConfig}, Chains,
           [c \in Chains |-> IF c = ChainA THEN LogsA ELSE LogsB], Now0, "once")

NextStore ==
    \/ \E c \in networks : PollerStepOk(c)
    \/ Restart

SpecStore == InitStore /\ [][NextStore]_vars

\* the same with the history of the kinds of log processed again
InitAgain ==
    InitAt({IndepConfig}, Chains,
           [c \in Chains |-> IF c = ChainA THEN LogsA ELSE LogsB], Now0, "again")

SpecAgain == InitAgain /\ [][NextStore]_vars

(***************************************************************************)
(* The shared store under direct calls of the Fusion+ operations of        *)
(* SharedDatabase (db.rs 558-795), in any order, by any caller: the        *)
(* arguments range over two orders, two secrets, both chains and both      *)
(* sides.  Hex arguments come in lowercase and in mixed case.              *)
(***************************************************************************)
RepoOrders == {Hex("o1"), HexMixed("o2")}
RepoSecrets == {Hex("s1"), HexMixed("s2")}
RepoHashlock(order) == IF order.id = "o1" THEN Hex("h1") ELSE HexMixed("h2")

\* what the repository calls leave alone
poller_state ==
    << pc, last_processed_block, window, queue, block_timestamp_cache,
       startup, iter, succ, cover, seen >>

RepoFrame ==
    UNCHANGED << rpc_call, task, cleanup, cover, deployment, head, now, checkpoint, transfers, fusion_swaps,
                 crypto2fiat_events, poller_state >>

RepoInsertSwap(order) ==
    LET data == decode_src_escrow_created(
                    SrcPayload(order, RepoHashlock(order), Hex("cB")))
        swap == from_src_created(data, ChainA, HexMixed("a1"), Base + 1,
                                 BlockTimestamp(ChainA, Base + 1), 1)
        ins == insert_fusion_plus_swap(fusion_plus_swaps, fusion_plus_seq,
                                       swap, now)
    IN /\ ins.seq <= MaxSeq
       /\ fusion_plus_swaps' = ins.table
       /\ fusion_plus_seq' = ins.seq
       /\ RepoFrame

RepoUpdateDst(order, chain_id) ==
    LET data == decode_dst_escrow_created(DstPayload(order, RepoHashlock(order)))
    IN /\ fusion_plus_swaps' =
              update_fusion_plus_dst(fusion_plus_swaps, order, data, chain_id,
                  HexMixed("b1"), Base + 1, BlockTimestamp(chain_id, Base + 1),
                  0, ESCROW_FACTORY, now)
       /\ UNCHANGED fusion_plus_seq
       /\ RepoFrame

RepoWithdrawal(order, chain_id, is_src, secret) ==
    /\ fusion_plus_swaps' =
           update_fusion_plus_withdrawal(fusion_plus_swaps, order, chain_id,
                                         is_src, secret, now)
    /\ UNCHANGED fusion_plus_seq
    /\ RepoFrame

RepoCancelled(order, chain_id, is_src) ==
    /\ fusion_plus_swaps' =
           update_fusion_plus_cancelled(fusion_plus_swaps, order, chain_id,
                                        is_src, now)
    /\ UNCHANGED fusion_plus_seq
    /\ RepoFrame

RepoWithdrawalByHashlock(hashlock, chain_id, is_src, secret) ==
    /\ fusion_plus_swaps' =
           update_fusion_plus_withdrawal_by_hashlock(fusion_plus_swaps,
               hashlock, chain_id, is_src, secret, HexMixed("b3"), Base + 2,
               BlockTimestamp(chain_id, Base + 2), 0, now)
    /\ UNCHANGED fusion_plus_seq
    /\ RepoFrame

\* The two inserts no poller calls: a caller holding the stores may.  One
\* event of chain A, its hash in lowercase or in mixed case, and one
\* transfer of a chain.
RepoEvents ==
    { [order_id |-> HexMixed("o7"), token |-> HexMixed("tA"), amount |-> 5,
       recipient |-> HexMixed("m1"), metadata |-> NullText,
       chain_id |-> ChainA, tx_hash |-> h, block_number |-> Base + 1,
       block_timestamp |-> BlockTimestamp(ChainA, Base + 1), log_index |-> 0] :
      h \in {Hex("e1"), HexMixed("e1")} }

RepoTransfers(c) ==
    { [chain_id |-> c, tx_hash |-> Hex("e2"), log_index |-> 0,
       token |-> HexMixed("tA"), from_addr |-> HexMixed("m1"),
       to_addr |-> Hex("m2"), value |-> 5, block_number |-> Base + 1,
       block_timestamp |-> BlockTimestamp(c, Base + 1)] }

RepoInsertCrypto2Fiat(event) ==
    /\ crypto2fiat_events' =
           insert_crypto2fiat_event(crypto2fiat_events, event, now)
    /\ UNCHANGED << rpc_call, task, cleanup, cover, deployment, head, now,
                    checkpoint, transfers, fusion_plus_swaps, fusion_plus_seq,
                    fusion_swaps, poller_state >>

RepoInsertTransfer(c, t) ==
    /\ transfers' = [transfers EXCEPT ![c] = insert_transfer(@, t, now)]
    /\ UNCHANGED << rpc_call, task, cleanup, cover, deployment, head, now,
                    checkpoint, fusion_plus_swaps, fusion_plus_seq,
                    fusion_swaps, crypto2fiat_events, poller_state >>

InitRepo == InitWith({DefaultConfig}, Chains, [c \in Chains |-> << >>])

NextRepo ==
    \/ \E order \in RepoOrders : RepoInsertSwap(order)
    \/ \E order \in RepoOrders, chain_id \in Chains :
           RepoUpdateDst(order, chain_id)
    \/ \E order \in RepoOrders, chain_id \in Chains, is_src \in BOOLEAN,
          secret \in RepoSecrets :
           RepoWithdrawal(order, chain_id, is_src, secret)
    \/ \E order \in RepoOrders, chain_id \in Chains, is_src \in BOOLEAN :
           RepoCancelled(order, chain_id, is_src)
    \/ \E order \in RepoOrders, chain_id \in Chains, is_src \in BOOLEAN,
          secret \in RepoSecrets :
           RepoWithdrawalByHashlock(RepoHashlock(order), chain_id, is_src, secret)
    \/ \E event \in RepoEvents : RepoInsertCrypto2Fiat(event)
    \/ \E t \in RepoTransfers(ChainB) : RepoInsertTransfer(ChainB, t)

SpecRepo == InitRepo /\ [][NextRepo]_vars

(***************************************************************************)
(* Two pollers and the swap updates of the repository that take a chain   *)
(* id, under events seen on the wrong chain.  Chain A holds a second swap  *)
(* whose destination chain word does not parse (dst_chain_id 0), a         *)
(* DstEscrowCreated of the first order, whose destination is chain B, and  *)
(* the source withdrawal; chain B holds the destination events of the      *)
(* first swap and a withdrawal revealing the secret of the second.  The    *)
(* calls of the pollers succeed; update_fusion_plus_withdrawal and         *)
(* update_fusion_plus_cancelled (db.rs 665-736), which no poller calls,    *)
(* are called by a holder of the store with any order, chain and side.     *)
(***************************************************************************)
LogsScopeA ==
    SubSeq(SoloAt(Base), 2, 2) \o
    << MkLog(ESCROW_FACTORY, <<SRC_ESCROW_CREATED_TOPIC>>,
             SrcPayload(Hex("o2"), HexMixed("h2"), Hex("cX")),
             Base, Hex("a5"), 2),
       MkLog(ESCROW_FACTORY, <<DST_ESCROW_CREATED_TOPIC>>,
             DstPayload(Hex("o1"), Hex("h1")), Base, Hex("a6"), 3),
       MkLog(Hex("escS"), <<ESCROW_WITHDRAWAL_TOPIC>>,
             <<Hex("s1")>>, Base, Hex("a2"), 4) >>

LogsScopeB ==
    << MkLog(ESCROW_FACTORY, <<DST_ESCROW_CREATED_TOPIC>>,
             DstPayload(Hex("o1"), Hex("h1")), Base, HexMixed("b1"), 0),
       MkLog(Hex("escD"), <<ESCROW_WITHDRAWAL_TOPIC>>,
             <<HexMixed("s1")>>, Base, Hex("b3"), 1),
       MkLog(Hex("escZ"), <<ESCROW_WITHDRAWAL_TOPIC>>,
             <<Hex("s2")>>, Base, Hex("b6"), 2) >>

InitScope ==
    InitAt({IndepConfig}, Chains,
           [c \in Chains |-> IF c = ChainA THEN LogsScopeA ELSE LogsScopeB],
           Now0, "once")

NextScope ==
    \/ \E c \in networks : PollerStepOk(c)
    \/ \E order \in RepoOrders, chain_id \in Chains, is_src \in BOOLEAN :
           RepoWithdrawal(order, chain_id, is_src, Hex("s1"))
    \/ \E order \in RepoOrders, chain_id \in Chains, is_src \in BOOLEAN :
           RepoCancelled(order, chain_id, is_src)

SpecScope == InitScope /\ [][NextScope]_vars

(***************************************************************************)
(* One pass of two pollers over one swap: no call fails and the process   *)
(* is not stopped, so that every log of the two chains is processed        *)
(* exactly once.  A poller takes the logs of its chain range by range and, *)
(* within a range, the Transfer logs (poller.rs 203-254), then the factory *)
(* logs (283-311), the escrow logs (321-347) and the router logs           *)
(* (522-551), each list in the order of the RPC; the two pollers are       *)
(* independent tasks (main.rs 111-135), so logs of different chains are    *)
(* processed in any relative order.                                        *)
(***************************************************************************)
\* the source chain: the maker's deposit, the escrow, a cancellation of
\* another escrow
LogsOrderA ==
    LogsSolo \o
    << MkLog(Hex("escX"), <<ESCROW_CANCELLED_TOPIC>>,
             <<>>, Base + 1, Hex("a4"), 2) >>

\* the destination chain: the taker's deposit, the escrow, an order of the
\* router, the withdrawal that reveals the secret
LogsOrderB ==
    << MkLog(Hex("tokD"), <<TRANSFER_TOPIC, Hex("taker2"), Hex("escD")>>,
             <<Hex("amtD")>>, Base + 1, HexMixed("b1"), 0),
       MkLog(ESCROW_FACTORY, <<DST_ESCROW_CREATED_TOPIC>>,
             DstPayload(Hex("o1"), Hex("h1")), Base + 1, HexMixed("b1"), 1),
       MkLog(AGGREGATION_ROUTER_V6, <<ORDER_FILLED_TOPIC>>,
             <<Hex("o9"), Hex("zero")>>, Base + 1, Hex("b2"), 2),
       MkLog(Hex("escD"), <<ESCROW_WITHDRAWAL_TOPIC>>,
             <<HexMixed("s1")>>, Base + 1, Hex("b3"), 3) >>

InitOrder ==
    InitAt({IndepConfig}, Chains,
           [c \in Chains |-> IF c = ChainA THEN LogsOrderA ELSE LogsOrderB],
           Now0, "order")

NextOrder ==
    \/ \E c \in networks : PollerStepOk(c)
    \/ \E c \in networks : AdvanceHead(c)

SpecOrder == InitOrder /\ [][NextOrder]_vars

(***************************************************************************)
(* The two pollers of SpecStore on two chains where the enrichment of     *)
(* process_order_filled (poller.rs 573-574, 616-682) finds something.      *)
(***************************************************************************)
\* transaction r1: the maker pays the router, the router pays the taker,
\* the taker pays the maker in a log whose payload has two words, and the
\* order is filled; transaction r2: a relay forwards one token, the second
\* time in a log with an empty payload, and the order is cancelled
LogsEnrichA ==
    << MkLog(Hex("tokS"), <<TRANSFER_TOPIC, HexMixed("maker1"), AGGREGATION_ROUTER_V6>>,
             <<Hex("amtS")>>, Base, Hex("r1"), 0),
       MkLog(Hex("tokS"), <<TRANSFER_TOPIC, AGGREGATION_ROUTER_V6, Hex("taker1")>>,
             <<Hex("amtS")>>, Base, Hex("r1"), 1),
       MkLog(HexMixed("tokD"), <<TRANSFER_TOPIC, Hex("taker1"), Hex("maker1")>>,
             <<Hex("amtD"), Hex("amtT")>>, Base, Hex("r1"), 2),
       MkLog(AGGREGATION_ROUTER_V6, <<ORDER_FILLED_TOPIC>>,
             <<Hex("o9"), Hex("zero")>>, Base, Hex("r1"), 3),
       MkLog(Hex("tokS"), <<TRANSFER_TOPIC, Hex("relay1"), Hex("relay2")>>,
             <<Hex("amtS")>>, Base, Hex("r2"), 4),
       MkLog(Hex("tokS"), <<TRANSFER_TOPIC, Hex("relay2"), Hex("relay3")>>,
             << >>, Base, Hex("r2"), 5),
       MkLog(AGGREGATION_ROUTER_V6, <<ORDER_CANCELLED_TOPIC>>,
             <<Hex("o8"), Hex("rem")>>, Base, Hex("r2"), 6) >>

\* a transaction of the same hash on the other chain, with no transfer
LogsEnrichB ==
    << MkLog(AGGREGATION_ROUTER_V6, <<ORDER_FILLED_TOPIC>>,
             <<Hex("o7"), Hex("zero")>>, Base, Hex("r1"), 0) >>

InitEnrich ==
    InitAt({IndepConfig}, Chains,
           [c \in Chains |-> IF c = ChainA THEN LogsEnrichA ELSE LogsEnrichB],
           Now0, "once")

SpecEnrich == InitEnrich /\ [][NextStore]_vars

(***************************************************************************)
(* RpcClient::request (rpc.rs 80-167).  A response is what one send of the *)
(* HTTP client yields: a transport failure (no status), or a status with a *)
(* body; the body of a success is unparsable, a JSON-RPC error, a result,  *)
(* or neither.  A message is a sequence of characters.                     *)
(***************************************************************************)
MaxRetries == 3                 \* max_retries ranges over 0..MaxRetries
DefaultBaseDelayMs == 100       \* RpcClient::new: with_config(url, name, 3, 100)
BaseDelays == {1, DefaultBaseDelayMs}

RATE_LIMIT_CODE == 0 - 32005
SERVER_ERROR_CODE == 0 - 32000

\* str::to_lowercase on the characters of the model
LowerChar(ch) ==
    CASE ch = "R" -> "r" [] ch = "A" -> "a" [] ch = "T" -> "t" [] ch = "E" -> "e"
      [] OTHER -> ch
str_to_lowercase(msg) == [i \in 1..Len(msg) |-> LowerChar(msg[i])]

\* str::contains
contains(msg, pat) ==
    \E i \in 0..(Len(msg) - Len(pat)) :
       \A j \in 1..Len(pat) : msg[i + j] = pat[j]

Messages ==
    { <<"b", "u", "s", "y">>,
      <<"r", "a", "t">>,
      <<"R", "a", "t", "e">>,
      <<"x", "R", "A", "T", "E", "x">> }

NoBody == [kind |-> "none", code |-> 0, message |-> << >>]
Transport == [kind |-> "transport", status |-> 0, body |-> NoBody]
HttpResponse(status, body) == [kind |-> "http", status |-> status, body |-> body]

Responses ==
    {Transport}
    \cup { HttpResponse(st, NoBody) : st \in {400, 429, 500, 502, 503, 504} }
    \cup { HttpResponse(200, [kind |-> k, code |-> 0, message |-> << >>]) :
              k \in {"garbage", "result", "empty"} }
    \cup { HttpResponse(200, [kind |-> "error", code |-> RATE_LIMIT_CODE,
                              message |-> <<"b", "u", "s", "y">>]) }
    \cup { HttpResponse(200, [kind |-> "error", code |-> SERVER_ERROR_CODE,
                              message |-> m]) : m \in Messages }

\* 500 taken for a retryable status too
is_retryable_status_and_500(status) == status \in {429, 500, 502, 503, 504}

\* lines 71-77
is_retryable_status(status) == status \in {429, 502, 503, 504}

\* StatusCode::is_success
is_success(status) == status >= 200 /\ status <= 299

\* line 137
is_rate_limit_error(error) ==
    \/ error.code = RATE_LIMIT_CODE
    \/ contains(str_to_lowercase(error.message), <<"r", "a", "t", "e">>)

\* a delay that grows by base at every retry
backoff_delay_linear(base, retries) == base * retries

\* lines 110-112, 142-144: retry_base_delay_ms * 2u64.pow(retries - 1)
backoff_delay(base, retries) == base * 2 ^ (retries - 1)

Finished(call, result) == [call EXCEPT !.state = "done", !.result = result]

\* RateLimited as soon as the retry counter reaches max_retries
retry_or_give_up_early(call) ==
    LET retries == call.retries + 1
    IN IF retries >= call.max_retries
       THEN Finished([call EXCEPT !.retries = retries], "RateLimited")
       ELSE [call EXCEPT !.retries = retries,
                         !.delays = Append(@,
                             backoff_delay(call.retry_base_delay_ms, retries))]

\* lines 106-123 and 138-155: count the retry, give up past max_retries,
\* otherwise sleep and send again
retry_or_give_up(call) ==
    LET retries == call.retries + 1
    IN IF retries > call.max_retries
       THEN Finished([call EXCEPT !.retries = retries], "RateLimited")
       ELSE [call EXCEPT !.retries = retries,
                         !.delays = Append(@,
                             backoff_delay(call.retry_base_delay_ms, retries))]

\* one turn of the loop of request (93-166) on response resp
request_turn(call, resp) ==
    LET c1 == [call EXCEPT !.responses = Append(@, resp)]
    IN IF resp.kind = "transport" THEN Finished(c1, "Http")       \* send().await?
       ELSE IF is_retryable_status(resp.status) THEN retry_or_give_up(c1)
       ELSE IF ~is_success(resp.status) THEN Finished(c1, "Rpc")
       ELSE IF resp.body.kind = "garbage" THEN Finished(c1, "Http") \* json().await?
       ELSE IF resp.body.kind = "error"
       THEN IF is_rate_limit_error(resp.body)
            THEN retry_or_give_up(c1)
            ELSE Finished(c1, "Rpc")
       ELSE IF resp.body.kind = "result" THEN Finished(c1, "Ok")
       ELSE Finished(c1, "Parse")

RpcFrame ==
    UNCHANGED << task, cleanup, deployment, head, now, stored, pc, last_processed_block,
                 window, queue, block_timestamp_cache, startup, iter, succ,
                 cover, seen >>

\* a client built by RpcClient::with_config starts a request: retries = 0
RpcRequest(max_retries, retry_base_delay_ms) ==
    /\ rpc_call.state = "idle"
    /\ rpc_call' = [NoCall EXCEPT !.state = "sending",
                                  !.max_retries = max_retries,
                                  !.retry_base_delay_ms = retry_base_delay_ms]
    /\ RpcFrame

\* the send completes with resp; the sleep before the next send is part
\* of the turn
RpcRespond(resp) ==
    /\ rpc_call.state = "sending"
    /\ rpc_call' = request_turn(rpc_call, resp)
    /\ RpcFrame

InitRpc ==
    InitWith({DefaultConfig}, {ChainA},
             [c \in Chains |-> IF c = ChainA THEN LogsSolo ELSE << >>])

NextRpc ==
    \/ \E max_retries \in 0..MaxRetries, base \in BaseDelays :
           RpcRequest(max_retries, base)
    \/ \E resp \in Responses : RpcRespond(resp)

SpecRpc == InitRpc /\ [][NextRpc]_vars

\* The task that awaits the request is polled by the runtime, and every
\* send ends: the HTTP client has a 60 s timeout (rpc.rs 55).
SpecRpcLive == SpecRpc /\ WF_vars(NextRpc)

(***************************************************************************)
(* The store under the events of two chains and the cleanup task, in a     *)
(* deployment whose TTL_SECS is TtlLong: two pollers whose calls succeed,  *)
(* insert_crypto2fiat_event, the clock, and the calls of                   *)
(* DatabaseManager::cleanup_all (db.rs 1434-1446), each reading the clock  *)
(* itself.                                                                 *)
(***************************************************************************)
TtlLong == 1                    \* TTL_SECS of this deployment
MaxTicksTtl == 2                \* the clock advances from TtlLong by at most this

\* one router order on the other chain
LogsTtlB ==
    << MkLog(AGGREGATION_ROUTER_V6, <<ORDER_FILLED_TOPIC>>,
             <<Hex("o9"), Hex("zero")>>, Base, Hex("b2"), 0) >>

InitTtl ==
    InitAt({IndepConfig}, Chains,
           [c \in Chains |-> IF c = ChainA THEN SoloAt(Base) ELSE LogsTtlB],
           TtlLong, "once")

TickTtl ==
    /\ now < TtlLong + MaxTicksTtl
    /\ now' = now + 1
    /\ UNCHANGED << rpc_call, task, cleanup, cover, deployment, head, stored, pc, last_processed_block,
                    window, queue, block_timestamp_cache, startup, iter, succ,
                    seen >>

NextTtl ==
    \/ \E c \in networks : PollerStepOk(c)
    \/ \E event \in RepoEvents : RepoInsertCrypto2Fiat(event)
    \/ TickTtl
    \/ CleanupRun(TtlLong)

SpecTtl == InitTtl /\ [][NextTtl]_vars

(***************************************************************************)
(* Two pollers spawned by main (main.rs 111-135), each its own task with   *)
(* its own RpcClient (poller.rs 61).  The RPC endpoint of ChainA may fail  *)
(* any request, at any time and for ever; the endpoint of ChainB and the   *)
(* stores answer every call of the poller of ChainB, and ChainB grows.     *)
(***************************************************************************)
\* a deposit and a router order in one transaction
LogsIndepB ==
    << MkLog(Hex("tokD"), <<TRANSFER_TOPIC, Hex("taker2"), Hex("escD")>>,
             <<Hex("amtD")>>, Base + 1, Hex("b2"), 0),
       MkLog(AGGREGATION_ROUTER_V6, <<ORDER_FILLED_TOPIC>>,
             <<Hex("o9"), Hex("zero")>>, Base + 1, Hex("b2"), 1) >>

InitIndep ==
    InitWith({IndepConfig}, Chains,
             [c \in Chains |-> IF c = ChainA THEN LogsSolo ELSE LogsIndepB])

NextIndep ==
    \/ PollerStep(ChainA)
    \/ PollerStepOk(ChainB)
    \/ \E c \in networks : AdvanceHead(c)

\* The runtime polls every spawned task: a poller that can take a step
\* takes it; the chain of ChainB produces blocks.
SpecIndep ==
    /\ InitIndep /\ [][NextIndep]_vars
    /\ WF_vars(PollerStepOk(ChainB))
    /\ WF_vars(AdvanceHead(ChainB))

(***************************************************************************)
(* Properties of the checkpoint protocol, checked on Spec.                 *)
(***************************************************************************)
\* a step of poller c that begins an iteration and obtains the chain head
BeginsIteration(c) ==
    /\ pc[c] = "idle"
    /\ pc'[c] \in {"idle", "logs"}
    /\ iter'[c] # iter[c]
    /\ iter'[c].from # -1

\* a step of poller c that ends initialize_checkpoint with Ok
EndsStartup(c) == pc[c] \in {"init_read", "init_write"} /\ pc'[c] = "idle"

\* a step of poller c that is its batch insert: insert_transfers_batch
\* with Ok, or the answer that the range holds no Transfer
InsertsBatch(c) == pc[c] \in {"logs", "transfers"} /\ pc'[c] = "fetch"

\* C1: whenever poll_once has set the checkpoint to the end of a window,
\* every Fusion+ and Fusion log of that window was applied to the store: no
\* log fetch of the window was replaced by an empty list and no handler of
\* a log of the window returned an error.
C1_CheckpointCoversWindow ==
    \A c \in Chains : iter[c].result = "ok" => iter[c].missed = {}

\* C2: an iteration that ends on a failed store call (the batch insert or
\* the final set_checkpoint) leaves the persisted checkpoint as it was, and
\* the next iteration, when the chain head is the one the failed iteration
\* saw, fetches from the same block.
C2_StoreFailureRetriesSameWindow ==
    [][\A c \in Chains :
         /\ (iter'[c] # iter[c]
             /\ iter'[c].result \in {"insert_failed", "checkpoint_failed"})
            => checkpoint'[c] = checkpoint[c]
         /\ (/\ iter[c].result \in {"insert_failed", "checkpoint_failed"}
             /\ BeginsIteration(c)
             /\ head[c] = iter[c].head)
            => iter'[c].from = iter[c].from]_vars

\* C3: within a run the checkpoint is at most the window end of the last
\* successful iteration and greater than the window end of every earlier
\* successful iteration of the run.
C3_WindowEndsIncrease ==
    \A c \in Chains :
        succ[c].last # -1 =>
            /\ checkpoint[c] <= succ[c].last
            /\ checkpoint[c] > succ[c].earlier

\* two iterations of one run have succeeded
C3_Witness ==
    \E c \in Chains : succ[c].earlier # -1 /\ checkpoint[c] = succ[c].last

\* C4 as stated: no step lowers or removes the persisted checkpoint of a
\* chain, whatever max_backfill_blocks and reorg_safety_blocks are.
C4_CheckpointNeverDecreases ==
    [][\A c \in Chains : checkpoint'[c] >= checkpoint[c]]_vars

\* C4 amended: when reorg_safety_blocks <= max_backfill_blocks + 1, no
\* step (startup with or without the stale rewrite, poll iteration,
\* restart, cleanup) lowers or removes the persisted checkpoint of a chain:
\* a checkpoint is stale when it is at least max_backfill_blocks + 1 blocks
\* behind the head, and the rewrite puts it reorg_safety_blocks behind.
C4_CheckpointNeverDecreasesWhenMarginFits ==
    [][config.reorg_safety_blocks <= config.max_backfill_blocks + 1
         => \A c \in Chains : checkpoint'[c] >= checkpoint[c]]_vars

\* a stale checkpoint was rewritten at startup, reorg_safety_blocks being
\* max_backfill_blocks + 1, and the run then completed an iteration
C4_Witness ==
    \E c \in Chains :
        /\ config.reorg_safety_blocks = config.max_backfill_blocks + 1
        /\ startup[c].kind = "stale"
        /\ startup[c].saved < startup[c].start_block
        /\ iter[c].result = "ok"

\* C5: with reorg_safety_blocks = R > 0 and last processed block L >= R, an
\* iteration that computes its range starts it at L - R + 1, so that the
\* last R blocks already processed are read again.
C5_OverlapWindow ==
    \A c \in Chains :
        (/\ iter[c].from # -1
         /\ config.reorg_safety_blocks > 0
         /\ iter[c].last >= config.reorg_safety_blocks)
        => iter[c].from = iter[c].last - config.reorg_safety_blocks + 1

\* the start block of the claim, H the chain head and C the saved checkpoint
ExpectedStart(H, C) ==
    IF C = NoCheckpoint THEN H - config.reorg_safety_blocks
    ELSE IF H - C > config.max_backfill_blocks
    THEN H - config.reorg_safety_blocks
    ELSE C

\* C6: a startup that succeeds, having read the head H and the saved
\* checkpoint C, leaves
\* both the persisted checkpoint and the block the run starts from at
\* H - reorg_safety_blocks when C is absent or H - C > max_backfill_blocks,
\* and at C otherwise; after a stale skip every range the run computes
\* starts above the new checkpoint.
C6_InitializeCheckpoint ==
    /\ [][\A c \in Chains :
            EndsStartup(c) =>
                /\ checkpoint'[c] =
                       ExpectedStart(startup'[c].head, startup'[c].saved)
                /\ last_processed_block'[c] =
                       ExpectedStart(startup'[c].head, startup'[c].saved)]_vars
    /\ [](\A c \in Chains :
            startup[c].kind = "stale" =>
                /\ iter[c].from # -1 => iter[c].from > startup[c].start_block
                /\ window[c] # NoWindow =>
                       window[c].from > startup[c].start_block)

\* a run skipped a stale checkpoint and completed an iteration above it
C6_Witness ==
    \E c \in Chains :
        /\ startup[c].kind = "stale"
        /\ startup[c].saved # startup[c].start_block
        /\ iter[c].result = "ok"
        /\ iter[c].from > startup[c].start_block
        /\ checkpoint[c] = iter[c].to

\* C7: a poller task never ends by itself: it is never in the state where
\* run has returned.
C7_PollerNeverExits ==
    \A c \in Chains : pc[c] # "exited"

\* the (tx_hash, log_index) pairs of the rows of the transfers of chain c
StoredKeys(c) == { << r.tx_hash, r.log_index >> : r \in transfers[c] }

\* C8: the transfers of a chain hold at most one row per (tx_hash,
\* log_index); an iteration whose Transfer logs all have their row already
\* leaves the transfers as they are when it inserts its batch; an iteration
\* that succeeds leaves the checkpoint at the end of its range.
C8_TransfersUniqueAndRefeedIdempotent ==
    /\ [](\A c \in Chains : \A r1 \in transfers[c], r2 \in transfers[c] :
            (r1.tx_hash = r2.tx_hash /\ r1.log_index = r2.log_index) => r1 = r2)
    /\ [][\A c \in Chains :
            /\ (/\ InsertsBatch(c)
                /\ LET logs == WindowTransferLogs(c)
                   IN \A i \in 1..Len(logs) :
                          << logs[i].transaction_hash, logs[i].log_index >>
                              \in StoredKeys(c))
               => transfers'[c] = transfers[c]
            /\ (iter'[c] # iter[c] /\ iter'[c].result = "ok")
               => checkpoint'[c] = iter'[c].to]_vars

\* an iteration has inserted the batch of a range again: the Transfer of
\* the range carries the label of an earlier pass while the log that sets
\* the label is still to be dispatched
C8_Witness ==
    \E c \in Chains :
        /\ pc[c] = "factory"
        /\ queue[c] # << >>
        /\ \E r \in transfers[c] :
               /\ r.swap_type = "fusion_plus"
               /\ r.block_number >= window[c].from
               /\ r.block_number <= window[c].to
               /\ r.tx_hash = to_lowercase(Head(queue[c]).transaction_hash)

(***************************************************************************)
(* Properties of the store, checked on SpecStore and, where the kinds of   *)
(* log processed again are told apart, on SpecAgain.                       *)
(***************************************************************************)
RowCounts ==
    << [c \in Chains |-> Cardinality(transfers[c])],
       Cardinality(fusion_plus_swaps),
       Cardinality(fusion_swaps),
       Cardinality(crypto2fiat_events) >>

\* C9: a step of a poller that processes a Fusion+ / Fusion log its chain
\* has already processed (SrcEscrowCreated, DstEscrowCreated,
\* EscrowWithdrawal, EscrowCancelled, OrderFilled, OrderCancelled), or
\* that inserts a batch of Transfer logs all already inserted, no cleanup
\* having run, leaves the number of rows of the transfers of every chain,
\* of fusion_plus_swaps, of fusion_swaps and of crypto2fiat_events as it
\* was.
C9_SecondProcessingKeepsRowCounts ==
    [][\A c \in networks :
         /\ \A i \in DOMAIN chain_logs[c] :
              (/\ LogKey(chain_logs[c][i]) \in seen.once[c]
               /\ Processes(c, chain_logs[c][i]))
              => RowCounts' = RowCounts
         /\ (/\ InsertsTransfers(c)
             /\ KeysOf(WindowTransferLogs(c)) \subseteq seen.once[c])
            => RowCounts' = RowCounts]_vars

\* every kind of log was processed a second time: the Transfer batch, and
\* the six kinds of Fusion+ and Fusion logs, their rows stored
C9_Witness ==
    /\ seen.again = { TRANSFER_TOPIC.id, SRC_ESCROW_CREATED_TOPIC.id,
                      DST_ESCROW_CREATED_TOPIC.id, ESCROW_WITHDRAWAL_TOPIC.id,
                      ESCROW_CANCELLED_TOPIC.id, ORDER_FILLED_TOPIC.id,
                      ORDER_CANCELLED_TOPIC.id }
    /\ fusion_plus_swaps # {}
    /\ Cardinality(fusion_swaps) = 2
    /\ transfers[ChainA] # {}

\* log, held by chain c, is an event of the destination chain of swap row q
DestinationEventOf(q, c, log) ==
    LET topic0 == to_lowercase(log.topics[1])
        dst == decode_dst_escrow_created(log.data)
        dec == decode_escrow_withdrawal(log.data)
        hl == compute_hashlock_from_secret(dec.secret)
    IN /\ c = q.dst_chain_id
       /\ \/ /\ topic0 = DST_ESCROW_CREATED_TOPIC
             /\ dst.ok
             /\ to_lowercase(dst.order_hash) = q.order_hash
          \/ /\ topic0 = ESCROW_WITHDRAWAL_TOPIC
             /\ dec.ok
             /\ hl.ok
             /\ to_lowercase(hl.hashlock) = q.hashlock

\* C10: a row enters fusion_plus_swaps only in a step that processes a
\* SrcEscrowCreated log of its order, and it enters with src_status created,
\* dst_status pending, no secret and no destination transaction, block,
\* timestamp or log index; the dst_status of a row leaves pending only in a
\* step that processes, on the row's destination chain, a DstEscrowCreated
\* of its order or an EscrowWithdrawal whose secret hashes to its hashlock.
C10_SwapCreatedPendingUntilDestinationEvent ==
    [][/\ \A r \in fusion_plus_swaps' :
            (\A q \in fusion_plus_swaps : q.id # r.id) =>
              /\ r.src_status = "created"
              /\ r.dst_status = "pending"
              /\ r.secret = NullHex
              /\ r.dst_tx_hash = NullHex
              /\ r.dst_block_number = NullInt
              /\ r.dst_block_timestamp = NullInt
              /\ r.dst_log_index = NullInt
              /\ \E c \in networks : \E i \in DOMAIN chain_logs[c] :
                   LET log == chain_logs[c][i]
                       data == decode_src_escrow_created(log.data)
                   IN /\ to_lowercase(log.topics[1]) = SRC_ESCROW_CREATED_TOPIC
                      /\ data.ok
                      /\ to_lowercase(data.order_hash) = r.order_hash
                      /\ Processes(c, log)
       /\ \A q \in fusion_plus_swaps : \A r \in fusion_plus_swaps' :
            (q.id = r.id /\ q.dst_status = "pending" /\ r.dst_status # "pending")
            => \E c \in networks : \E i \in DOMAIN chain_logs[c] :
                   /\ DestinationEventOf(q, c, chain_logs[c][i])
                   /\ Processes(c, chain_logs[c][i])]_vars

\* a swap was created on its source chain and withdrawn there while its
\* destination was pending, and its destination escrow was then created
C10_Witness ==
    \E r \in fusion_plus_swaps :
        /\ r.src_status = "withdrawn"
        /\ r.dst_status = "created"
        /\ r.dst_tx_hash # NullHex

(***************************************************************************)
(* Properties of the Fusion+ swap rows.                                    *)
(***************************************************************************)
\* C11: in every step the src_status of a swap row stays as it is, or moves
\* from created to withdrawn or from created to cancelled; a row is never
\* removed by an operation on swaps.
C11_SrcStatusMonotone ==
    [][\A q \in fusion_plus_swaps : \E r \in fusion_plus_swaps' :
         /\ r.id = q.id
         /\ \/ r.src_status = q.src_status
            \/ /\ q.src_status = "created"
               /\ r.src_status \in {"withdrawn", "cancelled"}]_vars

\* the places of pending, created and withdrawn on the way of dst_status
DstRank(status) ==
    CASE status = "pending" -> 0
      [] status = "created" -> 1
      [] status = "withdrawn" -> 2
      [] OTHER -> 3

\* C12: in every step the dst_status of a swap row stays as it is, moves
\* forward along pending, created, withdrawn, or moves from pending to
\* cancelled; it never moves backwards, also when a DstEscrowCreated is
\* applied after the destination withdrawal.
C12_DstStatusMonotone ==
    [][\A q \in fusion_plus_swaps : \E r \in fusion_plus_swaps' :
         /\ r.id = q.id
         /\ \/ r.dst_status = q.dst_status
            \/ /\ q.dst_status = "pending"
               /\ r.dst_status = "cancelled"
            \/ /\ DstRank(q.dst_status) < DstRank(r.dst_status)
               /\ DstRank(r.dst_status) <= 2]_vars

C14_SecretWrittenOnce ==
    [][\A q \in fusion_plus_swaps : \A r \in fusion_plus_swaps' :
         (r.id = q.id /\ q.secret # NullHex) => r.secret = q.secret]_vars

\* the destination transaction coordinates of a swap row
DstCoordinates(r) ==
    << r.dst_tx_hash, r.dst_block_number, r.dst_block_timestamp, r.dst_log_index >>

\* this step processes an EscrowWithdrawal log of chain c
WithdrawalStep(c) ==
    \E i \in DOMAIN chain_logs[c] :
        /\ to_lowercase(chain_logs[c][i].topics[1]) = ESCROW_WITHDRAWAL_TOPIC
        /\ Processes(c, chain_logs[c][i])

\* C15: a step that processes an EscrowWithdrawal leaves dst_tx_hash,
\* dst_block_number, dst_block_timestamp and dst_log_index of every swap
\* row as they were when the row had them populated before the step.
C15_WithdrawalKeepsDstCoordinates ==
    [][\A q \in fusion_plus_swaps : \A r \in fusion_plus_swaps' :
         (/\ r.id = q.id
          /\ q.dst_tx_hash # NullHex
          /\ \E c \in networks : WithdrawalStep(c))
         => DstCoordinates(r) = DstCoordinates(q)]_vars

\* the rows of the order of a DstEscrowCreated payload
RowsOfOrder(data) ==
    { q \in fusion_plus_swaps : q.order_hash = to_lowercase(data.order_hash) }

\* C16: a step that processes a DstEscrowCreated whose order has no swap
\* row, or whose swap row has dst_status created or withdrawn, leaves
\* fusion_plus_swaps as it was.
C16_DstEscrowCreatedNoOp ==
    [][\A c \in networks : \A i \in DOMAIN chain_logs[c] :
         LET log == chain_logs[c][i]
             data == decode_dst_escrow_created(log.data)
         IN (/\ to_lowercase(log.topics[1]) = DST_ESCROW_CREATED_TOPIC
             /\ data.ok
             /\ \A q \in RowsOfOrder(data) :
                    q.dst_status \in {"created", "withdrawn"}
             /\ Processes(c, log))
            => fusion_plus_swaps' = fusion_plus_swaps]_vars

\* rows q and r agree on every column outside fields
SameExcept(q, r, fields) == \A f \in (DOMAIN q) \ fields : r[f] = q[f]

SrcWithdrawalColumns == {"src_status", "secret", "updated_at"}
DstWithdrawalColumns ==
    {"dst_status", "dst_tx_hash", "dst_block_number", "dst_block_timestamp",
     "dst_log_index", "secret", "updated_at"}

\* the change of row q into r is within the scope of a log of topic0
\* processed by the poller of chain c
ScopedChange(c, topic0, q, r) ==
    IF topic0 = DST_ESCROW_CREATED_TOPIC THEN q.dst_chain_id = c
    ELSE IF q.src_chain_id = c THEN SameExcept(q, r, SrcWithdrawalColumns)
    ELSE q.dst_chain_id = c /\ SameExcept(q, r, DstWithdrawalColumns)

\* the change of row q into r is within the scope of
\* update_fusion_plus_withdrawal or update_fusion_plus_cancelled called
\* with chain_id and is_src
SideChange(chain_id, is_src, q, r) ==
    IF is_src
    THEN q.src_chain_id = chain_id /\ SameExcept(q, r, SrcWithdrawalColumns)
    ELSE /\ q.dst_chain_id = chain_id
         /\ SameExcept(q, r, {"dst_status", "secret", "updated_at"})

\* C17: a step in which the poller of chain c processes a DstEscrowCreated
\* changes only swap rows whose dst_chain_id is c; a step in which it
\* processes an EscrowWithdrawal changes only rows whose src_chain_id or
\* dst_chain_id is c, on a source-chain row only src_status and secret
\* (and updated_at), on a destination-chain row only the destination
\* status and coordinates and secret (and updated_at); a call of
\* update_fusion_plus_withdrawal or update_fusion_plus_cancelled with a
\* chain id and a side changes only rows whose side is on that chain, and
\* of them only the status of that side, the secret and updated_at.
C17_UpdatesScopedByChain ==
    /\ [][fusion_plus_swaps' # fusion_plus_swaps =>
            \A c \in networks : \A i \in DOMAIN chain_logs[c] :
              LET log == chain_logs[c][i]
                  topic0 == to_lowercase(log.topics[1])
              IN (/\ topic0 \in {DST_ESCROW_CREATED_TOPIC,
                                 ESCROW_WITHDRAWAL_TOPIC}
                  /\ Processes(c, log))
                 => \A q \in fusion_plus_swaps : \A r \in fusion_plus_swaps' :
                        (r.id = q.id /\ r # q)
                            => ScopedChange(c, topic0, q, r)]_vars
    /\ [][fusion_plus_swaps' # fusion_plus_swaps =>
            \A order \in RepoOrders, chain_id \in Chains, is_src \in BOOLEAN :
              (\/ RepoWithdrawal(order, chain_id, is_src, Hex("s1"))
               \/ RepoCancelled(order, chain_id, is_src))
              => \A q \in fusion_plus_swaps : \A r \in fusion_plus_swaps' :
                     (r.id = q.id /\ r # q)
                         => SideChange(chain_id, is_src, q, r)]_vars

\* the poller of chain c has processed a log of topic0 with Ok
Processed(c, topic0) ==
    \E i \in DOMAIN chain_logs[c] :
       /\ to_lowercase(chain_logs[c][i].topics[1]) = topic0
       /\ LogKey(chain_logs[c][i]) \in seen.once[c]

\* Both chains hold swap rows; chain A processed the DstEscrowCreated of a
\* swap whose destination is chain B, which is still pending; chain B
\* processed the withdrawal of a swap it is no side of, whose source side
\* was cancelled by update_fusion_plus_cancelled and whose row is
\* otherwise untouched; the source-chain withdrawal changed the source
\* side only.
C17_Witness ==
    /\ Processed(ChainA, DST_ESCROW_CREATED_TOPIC)
    /\ \E q \in fusion_plus_swaps :
          /\ q.dst_chain_id = ChainB
          /\ q.src_status = "withdrawn"
          /\ q.dst_status = "pending"
          /\ q.dst_tx_hash = NullHex
    /\ \E i \in DOMAIN chain_logs[ChainB] :
          LET log == chain_logs[ChainB][i]
              hl == compute_hashlock_from_secret(decode_escrow_withdrawal(log.data).secret)
          IN /\ to_lowercase(log.topics[1]) = ESCROW_WITHDRAWAL_TOPIC
             /\ LogKey(log) \in seen.once[ChainB]
             /\ \E q \in fusion_plus_swaps :
                   /\ q.hashlock = hl.hashlock
                   /\ q.src_chain_id # ChainB /\ q.dst_chain_id # ChainB
                   /\ q.src_status = "cancelled"
                   /\ q.secret = NullHex /\ q.dst_status = "pending"

(***************************************************************************)
(* Properties of one swap across two chains, checked on SpecOrder.         *)
(***************************************************************************)
\* the log of topic0 on chain c
SwapLog(c, topic0) ==
    CHOOSE l \in { chain_logs[c][i] : i \in DOMAIN chain_logs[c] } :
        to_lowercase(l.topics[1]) = topic0

\* the position in the pass at which chain c entered ("in") or left
\* ("out") the processing of its log of topic0, 0 when it has not
Pos(c, topic0, mark) ==
    LET at == { n \in DOMAIN seen.order :
                   seen.order[n] = <<c, LogKey(SwapLog(c, topic0)), mark>> }
    IN IF at = {} THEN 0 ELSE CHOOSE n \in at : TRUE

InSrcCreated == Pos(ChainA, SRC_ESCROW_CREATED_TOPIC, "in")
OutSrcCreated == Pos(ChainA, SRC_ESCROW_CREATED_TOPIC, "out")
InDstCreated == Pos(ChainB, DST_ESCROW_CREATED_TOPIC, "in")
OutDstCreated == Pos(ChainB, DST_ESCROW_CREATED_TOPIC, "out")
InWithdrawal == Pos(ChainB, ESCROW_WITHDRAWAL_TOPIC, "in")
OutWithdrawal == Pos(ChainB, ESCROW_WITHDRAWAL_TOPIC, "out")

\* the three logs were processed, the first before the second was entered
\* and the second before the third was entered
SrcThenDstThenWithdrawal ==
    /\ 0 < OutSrcCreated /\ OutSrcCreated < InDstCreated
    /\ 0 < OutDstCreated /\ OutDstCreated < InWithdrawal
    /\ 0 < OutWithdrawal

DstThenSrcThenWithdrawal ==
    /\ 0 < OutDstCreated /\ OutDstCreated < InSrcCreated
    /\ 0 < OutSrcCreated /\ OutSrcCreated < InWithdrawal
    /\ 0 < OutWithdrawal

\* the swap table after SrcEscrowCreated on chain A, DstEscrowCreated on
\* chain B and EscrowWithdrawal on chain B, processed in this order on an
\* empty store
HappyPathRows ==
    LET Run(db, c, topic0) ==
            HandlerRun(db, c, SwapLog(c, topic0),
                       BlockTimestamp(c, SwapLog(c, topic0).block_number),
                       StageOf(c, SwapLog(c, topic0)), "begin", NoLookup,
                       NoFail, now)
        Step(db, c, topic0) == (CHOOSE r \in Run(db, c, topic0) : TRUE).db
        db0 == [transfers |-> {}, fp |-> {}, seq |-> 0, fs |-> {}]
        db1 == Step(db0, ChainA, SRC_ESCROW_CREATED_TOPIC)
        db2 == Step(db1, ChainB, DST_ESCROW_CREATED_TOPIC)
        db3 == Step(db2, ChainB, ESCROW_WITHDRAWAL_TOPIC)
    IN db3.fp

\* the secret of the EscrowWithdrawal of chain B, as hex digits
RevealedSecret ==
    to_lowercase(decode_escrow_withdrawal(
        SwapLog(ChainB, ESCROW_WITHDRAWAL_TOPIC).data).secret)

\* C18: when chain A processed SrcEscrowCreated, then chain B processed
\* DstEscrowCreated of the same order, then the EscrowWithdrawal whose
\* secret hashes to the hashlock, the swap has exactly one row, with
\* src_status created, dst_status withdrawn, secret the revealed value and
\* dst_tx_hash populated.
C18_HappyPathFinalRow ==
    SrcThenDstThenWithdrawal
    => /\ Cardinality(fusion_plus_swaps) = 1
       /\ \A r \in fusion_plus_swaps :
             /\ r.order_hash = to_lowercase(decode_src_escrow_created(
                    SwapLog(ChainA, SRC_ESCROW_CREATED_TOPIC).data).order_hash)
             /\ r.src_status = "created"
             /\ r.dst_status = "withdrawn"
             /\ r.secret = RevealedSecret
             /\ r.dst_tx_hash # NullHex

C18_Witness ==
    /\ SrcThenDstThenWithdrawal
    /\ \E r \in fusion_plus_swaps :
          r.dst_status = "withdrawn" /\ r.secret = RevealedSecret

\* C19: when chain B processed DstEscrowCreated before chain A processed
\* SrcEscrowCreated of the same order, and the withdrawal on chain B was
\* processed after both, the swap table equals, in every column, the one
\* of the pass that processes SrcEscrowCreated first.
C19_OutOfOrderSameRow ==
    DstThenSrcThenWithdrawal => fusion_plus_swaps = HappyPathRows

\* C20: when SrcEscrowCreated (chain A), DstEscrowCreated (chain B) and
\* EscrowWithdrawal (chain B) of the swap have each been processed once,
\* in whatever order across the chains, the swap table is the same one.
C20_AllOrdersConverge ==
    (0 < OutSrcCreated /\ 0 < OutDstCreated /\ 0 < OutWithdrawal)
    => fusion_plus_swaps = HappyPathRows

(***************************************************************************)
(* Properties of the labelling and of the stored values, checked on        *)
(* SpecStore and SpecOrder.                                                *)
(***************************************************************************)
\* C21: a step in which a poller processes an EscrowCancelled log leaves
\* every Fusion+ swap row as it was, and no swap row ever has src_status
\* or dst_status cancelled.
C21_EscrowCancelledOnlyLabels ==
    /\ [](\A r \in fusion_plus_swaps :
             r.src_status # "cancelled" /\ r.dst_status # "cancelled")
    /\ [][fusion_plus_swaps' # fusion_plus_swaps =>
            \A c \in networks : \A i \in DOMAIN chain_logs[c] :
               to_lowercase(chain_logs[c][i].topics[1]) = ESCROW_CANCELLED_TOPIC
                   => ~ Processes(c, chain_logs[c][i])]_vars

\* the cancellation was processed while the source chain held a swap row
C21_Witness ==
    /\ Processed(ChainA, ESCROW_CANCELLED_TOPIC)
    /\ \E r \in fusion_plus_swaps :
          r.src_chain_id = ChainA /\ r.src_status = "withdrawn"

\* the events of chain c processed with Ok whose transaction is that of
\* transfer row r, the letter case of the hash set aside
EventsOfTransfer(c, r) ==
    { i \in DOMAIN chain_logs[c] :
         /\ StageOf(c, chain_logs[c][i]) # "none"
         /\ LogKey(chain_logs[c][i]) \in seen.once[c]
         /\ to_lowercase(chain_logs[c][i].transaction_hash) = to_lowercase(r.tx_hash) }

LabelOf(c, log) == IF StageOf(c, log) = "router" THEN "fusion" ELSE "fusion_plus"

\* C22: in a pass that processes every log once, a stored transfer of
\* chain c whose transaction holds a processed Fusion+ escrow event or
\* Fusion router event of chain c has the swap_type of such an event,
\* whatever the letter case of the hashes, and every other transfer has no
\* swap_type.
C22_TransfersLabelled ==
    \A c \in networks : \A r \in transfers[c] :
       IF EventsOfTransfer(c, r) = {}
       THEN r.swap_type = NullText
       ELSE \E i \in EventsOfTransfer(c, r) :
               r.swap_type = LabelOf(c, chain_logs[c][i])

TransferHexColumns == {"tx_hash", "token", "from_addr", "to_addr"}
FusionPlusHexColumns ==
    {"order_hash", "hashlock", "secret", "src_tx_hash", "dst_tx_hash",
     "src_escrow_address", "dst_escrow_address", "src_maker", "src_taker",
     "src_token", "dst_maker", "dst_taker", "dst_token"}
FusionHexColumns == {"order_hash", "tx_hash", "maker", "maker_token", "taker_token"}

\* C23: every address and hash column of every stored row of transfers,
\* fusion_plus_swaps and fusion_swaps holds lowercase hex digits.
C23_StoredHexLowercase ==
    /\ \A c \in networks : \A r \in transfers[c] :
          \A f \in TransferHexColumns : r[f].lower
    /\ \A r \in fusion_plus_swaps : \A f \in FusionPlusHexColumns : r[f].lower
    /\ \A r \in fusion_swaps : \A f \in FusionHexColumns : r[f].lower

(***************************************************************************)
(* Properties of the enrichment of router orders, checked on SpecEnrich.   *)
(***************************************************************************)
\* the stored transfers of the transaction of fusion_swaps row r
TransfersOfSwap(r) == { t \in transfers[r.chain_id] : t.tx_hash = r.tx_hash }

\* C24: every fusion_swaps row either has maker_token and taker_token
\* unset and maker empty, or has both set and different, with maker the
\* sender of one transfer and the receiver of another of the row's
\* transaction and not one of the excluded router addresses.
C24_EnrichedSwapsConsistent ==
    \A r \in fusion_swaps :
       \/ /\ r.maker_token = NullHex /\ r.taker_token = NullHex
          /\ r.maker = EmptyHex
       \/ /\ r.maker_token # NullHex /\ r.taker_token # NullHex
          /\ r.maker_token # r.taker_token
          /\ r.maker \notin router_addresses
          /\ \E t \in TransfersOfSwap(r) : t.from_addr = r.maker
          /\ \E t \in TransfersOfSwap(r) : t.to_addr = r.maker

\* an order was resolved from the transfers of its transaction, and the
\* order of a transaction whose transfers forward one token through a
\* relay was processed and left unresolved
C24_Witness ==
    /\ \E r \in fusion_swaps :
          /\ r.maker = Hex("maker1")
          /\ r.maker_token = Hex("tokS") /\ r.taker_token = Hex("tokD")
          /\ r.maker_amount = Hex("amtS")
          /\ r.taker_amount = DataString(<<Hex("amtD"), Hex("amtT")>>)
    /\ \E r \in fusion_swaps :
          /\ r.maker = EmptyHex /\ r.status = "cancelled"
          /\ Cardinality(TransfersOfSwap(r)) = 2
          /\ \A t \in TransfersOfSwap(r) : t.swap_type = "fusion"

(***************************************************************************)
(* Properties of the RPC client, checked on SpecRpc and SpecRpcLive.       *)
(***************************************************************************)
LastResponse(call) == call.responses[Len(call.responses)]

\* a response that asks for a retry: HTTP 429, 502, 503 or 504, or a
\* JSON-RPC error of code -32005 or with "rate" in its message, in any
\* letter case
RetryableResponse(resp) ==
    /\ resp.kind = "http"
    /\ \/ resp.status \in {429, 502, 503, 504}
       \/ /\ resp.status = 200 /\ resp.body.kind = "error"
          /\ \/ resp.body.code = RATE_LIMIT_CODE
             \/ \E m \in Messages :
                   /\ resp.body.message = m
                   /\ m \in { <<"R", "a", "t", "e">>,
                              <<"x", "R", "A", "T", "E", "x">> }

\* any other HTTP non-success status, any other JSON-RPC error
FailingResponse(resp) ==
    /\ resp.kind = "http"
    /\ ~RetryableResponse(resp)
    /\ resp.status # 200 \/ resp.body.kind = "error"

\* C25: a response to a request is followed by another attempt only if it
\* is retryable, and always if it is retryable and retries remain; any
\* other HTTP non-success status and any other JSON-RPC error ends the
\* call with an error at that attempt.
C25_RetriedIffRetryable ==
    [][(rpc_call.state = "sending" /\ rpc_call' # rpc_call) =>
         LET resp == LastResponse(rpc_call')
         IN /\ rpc_call'.state = "sending" => RetryableResponse(resp)
            /\ (RetryableResponse(resp) /\ rpc_call.retries < rpc_call.max_retries)
                   => /\ rpc_call'.state = "sending"
                      /\ rpc_call'.retries = rpc_call.retries + 1
            /\ FailingResponse(resp)
                   => rpc_call'.state = "done" /\ rpc_call'.result = "Rpc"]_vars

\* a JSON-RPC error with RATE in its message was retried, then HTTP 500
\* ended the call
C25_Witness ==
    /\ rpc_call.state = "done" /\ rpc_call.result = "Rpc"
    /\ Len(rpc_call.responses) = 3
    /\ rpc_call.responses[1].body.message = <<"x", "R", "A", "T", "E", "x">>
    /\ rpc_call.responses[2].status = 503
    /\ rpc_call.responses[3].status = 500

\* the attempts of the call answered with a retryable response
RetryableAttempts(call) ==
    { i \in DOMAIN call.responses : RetryableResponse(call.responses[i]) }

\* C26: a request makes at most max_retries + 1 attempts and ends; the
\* retryable HTTP statuses and the retryable JSON-RPC errors are counted
\* by one counter; the call ends with RateLimited exactly when a retryable
\* response arrives after max_retries retries were made.
C26_RetryBudget ==
    /\ [](/\ Len(rpc_call.responses) <= rpc_call.max_retries + 1
          /\ rpc_call.retries = Cardinality(RetryableAttempts(rpc_call))
          /\ rpc_call.result = "RateLimited"
                <=> /\ rpc_call.state = "done"
                    /\ Cardinality(RetryableAttempts(rpc_call))
                           = rpc_call.max_retries + 1)
    /\ <>(rpc_call.state = "done")

\* RateLimited after three retries, answers of both kinds among them
C26_Witness ==
    /\ rpc_call.result = "RateLimited"
    /\ rpc_call.max_retries = MaxRetries
    /\ Len(rpc_call.responses) = MaxRetries + 1
    /\ rpc_call.responses[1].status = 429
    /\ rpc_call.responses[2].body.code = RATE_LIMIT_CODE
    /\ rpc_call.responses[Len(rpc_call.responses)].status = 504

RECURSIVE SumSeq(_)
SumSeq(q) == IF q = << >> THEN 0 ELSE Head(q) + SumSeq(Tail(q))

\* HTTP 429 twice, then HTTP 200 with a result
TwoThrottlesThenOk ==
    << HttpResponse(429, NoBody), HttpResponse(429, NoBody),
       HttpResponse(200, [kind |-> "result", code |-> 0, message |-> << >>]) >>

\* C27: the delay slept before the n-th retry of a request is
\* retry_base_delay_ms * 2^(n-1) milliseconds, one delay per retry; a
\* request answered 429, 429, 200 ends Ok having slept base + 2 * base in
\* total, 300 ms with the default base.
C27_BackoffDelays ==
    /\ Len(rpc_call.delays) = Len(rpc_call.responses)
          - (IF rpc_call.state = "done" THEN 1 ELSE 0)
    /\ \A n \in DOMAIN rpc_call.delays :
          rpc_call.delays[n] = rpc_call.retry_base_delay_ms * 2 ^ (n - 1)
    /\ rpc_call.responses = TwoThrottlesThenOk
          => /\ rpc_call.result = "Ok"
             /\ SumSeq(rpc_call.delays) = 3 * rpc_call.retry_base_delay_ms
             /\ rpc_call.retry_base_delay_ms = DefaultBaseDelayMs
                   => SumSeq(rpc_call.delays) = 300

\* the scenario with the default client, and a call that slept three times
C27_Witness ==
    /\ rpc_call.responses = TwoThrottlesThenOk
    /\ rpc_call.retry_base_delay_ms = DefaultBaseDelayMs
    /\ rpc_call.max_retries = 3
    /\ rpc_call.delays = <<100, 200>>

\* C28: when the send of a request fails at the transport level (no HTTP
\* status) and retries remain, the client counts a retry, sleeps the
\* backoff delay and sends again; the call does not end on that failure.
C28_TransportFailureRetried ==
    [][(/\ rpc_call.state = "sending" /\ rpc_call' # rpc_call
        /\ LastResponse(rpc_call') = Transport
        /\ rpc_call.retries < rpc_call.max_retries)
       => /\ rpc_call'.state = "sending"
          /\ rpc_call'.retries = rpc_call.retries + 1
          /\ Len(rpc_call'.delays) = Len(rpc_call.delays) + 1]_vars

(***************************************************************************)
(* Properties of the cleanup task, checked on SpecTtl.                     *)
(***************************************************************************)
\* no table holds a row created before t - ttl
NoneOlder(t, ttl) ==
    /\ \A c \in networks : \A r \in transfers[c] : ~(r.created_at < t - ttl)
    /\ \A r \in fusion_plus_swaps : ~(r.created_at < t - ttl)
    /\ \A r \in fusion_swaps : ~(r.created_at < t - ttl)
    /\ \A r \in crypto2fiat_events : ~(r.created_at < t - ttl)

\* C29: when the last call of a cleanup run has succeeded, as every call
\* of the run before it, there is a time t of the run, between the clock
\* read by its first call and the clock read by its last, for which none
\* of transfers, fusion_plus_swaps, fusion_swaps and crypto2fiat_events
\* holds a row with created_at < t - TTL and the run has removed no row
\* with created_at >= t - TTL, whatever the block_timestamp of a row.
C29_CleanupByCreatedAt ==
    [][CleanupCrypto2Fiat(TtlLong, TRUE) =>
         \E t \in cleanup.began .. now :
             /\ NoneOlder(t, TtlLong)'
             /\ NewestGone(crypto2fiat_events, crypto2fiat_events',
                           cleanup.newest) < t - TtlLong]_vars

(***************************************************************************)
(* Properties of the pollers as independent tasks, checked on SpecIndep.   *)
(***************************************************************************)
\* C30: whatever the RPC endpoint of chain A answers, and if it fails every
\* request for ever, no step of the poller of chain A changes the
\* checkpoint or the transfers of chain B, and the poller of chain B,
\* whose calls succeed, advances its checkpoint up to the confirmed head
\* of its chain.
C30_PollersIndependent ==
    /\ [][PollerStep(ChainA) =>
            /\ checkpoint'[ChainB] = checkpoint[ChainB]
            /\ transfers'[ChainB] = transfers[ChainB]]_vars
    /\ <>(checkpoint[ChainB] = MaxHead - config.confirmation_blocks)

\* the poller of chain A has ended on a failed start and has stored
\* nothing, while the poller of chain B stored its transfers and committed
\* the last block
C30_Witness ==
    /\ pc[ChainA] = "exited"
    /\ checkpoint[ChainA] = NoCheckpoint
    /\ transfers[ChainA] = {}
    /\ transfers[ChainB] # {}
    /\ checkpoint[ChainB] = MaxHead

(***************************************************************************)
(* Properties of a run of the poller: cancellation, ranges, progress.      *)
(***************************************************************************)
\* the rows of a transfers table for the blocks from..to, without the
\* label and the insertion time
StoredTransfers(table, from, to) ==
    { [r EXCEPT !.swap_type = NullText, !.created_at = 0] :
        r \in { q \in table : q.block_number \in from..to } }

\* the rows a run stores for the Transfer logs of the blocks from..to
TransfersOfRange(c, from, to) ==
    LET logs == ValidTransferLogs(get_transfer_logs(c, from, to))
    IN { [TransferRow(TransferOf(c, logs[i],
                          BlockTimestamp(c, logs[i].block_number)), 0)
            EXCEPT !.swap_type = NullText, !.created_at = 0] :
         i \in 1..Len(logs) }

\* C31: no step taken inside an iteration, and no stop of the process
\* during one, changes the persisted checkpoint, which stays below the
\* range of the iteration; a run that resumes from that checkpoint starts
\* below the interrupted range, has inserted the batch of every block of it
\* again once its checkpoint reaches the end of that range, and each batch
\* it inserts leaves, for the blocks of its range, exactly one row per
\* Transfer log, the rows an uninterrupted run stores.
C31_CancelledIterationRepeats ==
    /\ [][\A c \in Chains :
            /\ (InIteration(c)' \/ (InIteration(c) /\ pc'[c] = "start"))
               => checkpoint'[c] = checkpoint[c]
            /\ (/\ InsertsBatch(c)
                /\ startup[c].kind = "resume"
                /\ cover[c].cancelled # NoWindow)
               => LET w == window'[c]
                      rows == { r \in transfers'[c] :
                                  r.block_number \in w.from..w.to }
                  IN /\ StoredTransfers(transfers'[c], w.from, w.to)
                            = TransfersOfRange(c, w.from, w.to)
                     /\ Cardinality(rows)
                            = Cardinality(TransfersOfRange(c, w.from, w.to))]_vars
    /\ [](\A c \in Chains :
            /\ InIteration(c) =>
                   /\ checkpoint[c] # NoCheckpoint
                   /\ checkpoint[c] < window[c].from
            /\ (startup[c].kind = "resume" /\ cover[c].cancelled # NoWindow) =>
                   /\ startup[c].start_block < cover[c].cancelled.from
                   /\ checkpoint[c] >= cover[c].cancelled.to =>
                          \A b \in cover[c].cancelled.from..cover[c].cancelled.to :
                              b \in cover[c].inserted)

\* an iteration holding a Transfer log was interrupted, the next run
\* resumed from the checkpoint, inserted the batch of the range again and
\* moved the checkpoint to the end of the range
C31_Witness ==
    \E c \in Chains :
        /\ startup[c].kind = "resume"
        /\ cover[c].cancelled # NoWindow
        /\ TransfersOfRange(c, cover[c].cancelled.from, cover[c].cancelled.to) # {}
        /\ checkpoint[c] >= cover[c].cancelled.to
        /\ \A b \in cover[c].cancelled.from..cover[c].cancelled.to :
               b \in cover[c].inserted
        /\ StoredTransfers(transfers[c], cover[c].cancelled.from,
                           cover[c].cancelled.to)
               = TransfersOfRange(c, cover[c].cancelled.from,
                                  cover[c].cancelled.to)

\* C32: the range [from, to] of every log query of an iteration that saw
\* the head H has from <= to, at most max_blocks_per_query blocks and
\* to <= H - confirmation_blocks, and the Fusion+ and Fusion queries use the
\* range of the Transfer query; an iteration with from >
\* H - confirmation_blocks queries no logs and leaves the checkpoint, the
\* last processed block and the store as they were.
C32_QueryRangeBounded ==
    /\ [](\A c \in Chains :
            /\ iter[c].to # -1 =>
                   /\ iter[c].from <= iter[c].to
                   /\ iter[c].to - iter[c].from + 1 <= config.max_blocks_per_query
                   /\ iter[c].to <= iter[c].head - config.confirmation_blocks
            /\ window[c] # NoWindow =>
                   window[c] = [from |-> iter[c].from, to |-> iter[c].to])
    /\ [][\A c \in Chains :
            (/\ BeginsIteration(c)
             /\ iter'[c].from > iter'[c].head - config.confirmation_blocks)
            => /\ iter'[c].to = -1
               /\ iter'[c].result = "skipped"
               /\ pc'[c] = "idle"
               /\ window'[c] = NoWindow
               /\ last_processed_block'[c] = last_processed_block[c]
               /\ stored' = stored]_vars

\* an iteration queried a range cut to max_blocks_per_query, below the
\* confirmed head, and the run then skipped an iteration at the head
C32_Witness ==
    \E c \in Chains :
        /\ succ[c].last # -1
        /\ succ[c].last - succ[c].earlier = config.max_blocks_per_query
        /\ succ[c].earlier # -1
        /\ iter[c].result = "skipped"
        /\ iter[c].from = iter[c].head - config.confirmation_blocks + 1
        /\ iter[c].from = succ[c].last + 1

(***************************************************************************)
(* One poller on a chain whose block Base + 1 holds, beside a swap seen    *)
(* from its source chain and a router order, a SrcEscrowCreated whose      *)
(* payload is too short, an EscrowWithdrawal whose secret is no hex string *)
(* and, in a transaction with a Transfer, an EscrowWithdrawal of a swap    *)
(* that no chain has announced.  Every call of the poller may fail.        *)
(***************************************************************************)
LogsSkip ==
    << MkLog(HexMixed("tokS"), <<TRANSFER_TOPIC, Hex("maker1"), HexMixed("escS")>>,
             <<Hex("amtS")>>, Base + 1, Hex("a1"), 0),
       MkLog(ESCROW_FACTORY, <<SRC_ESCROW_CREATED_TOPIC>>,
             <<Hex("o3"), Hex("h2")>>, Base + 1, Hex("a3"), 1),
       MkLog(ESCROW_FACTORY, <<SRC_ESCROW_CREATED_TOPIC>>,
             SrcPayload(Hex("o1"), Hex("h1"), Hex("cB")), Base + 1, Hex("a1"), 2),
       MkLog(Hex("escY"), <<ESCROW_WITHDRAWAL_TOPIC>>,
             <<Hex("not-hex")>>, Base + 1, Hex("a4"), 3),
       MkLog(Hex("escS"), <<ESCROW_WITHDRAWAL_TOPIC>>,
             <<Hex("s1")>>, Base + 1, Hex("a2"), 4),
       MkLog(AGGREGATION_ROUTER_V6, <<ORDER_FILLED_TOPIC>>,
             <<Hex("o9"), Hex("zero")>>, Base + 1, Hex("a5"), 5),
       MkLog(Hex("tokD"), <<TRANSFER_TOPIC, Hex("escZ"), Hex("taker2")>>,
             <<Hex("amtD")>>, Base + 1, Hex("a6"), 6),
       MkLog(Hex("escZ"), <<ESCROW_WITHDRAWAL_TOPIC>>,
             <<Hex("s2")>>, Base + 1, Hex("a6"), 7) >>

InitSkip ==
    InitWith({IndepConfig}, {ChainA},
             [c \in Chains |-> IF c = ChainA THEN LogsSkip ELSE << >>])

NextSkip ==
    \/ PollerStep(ChainA)
    \/ AdvanceHead(ChainA)

SpecSkip == InitSkip /\ [][NextSkip]_vars

\* a step of a dispatch loop of poller c in the handler of the log it has
\* reached, whose block timestamp it has
DispatchesLog(c) ==
    /\ pc[c] \in {"factory", "escrow", "router"}
    /\ queue[c] # << >>
    /\ Head(queue[c]).block_number \in block_timestamp_cache[c]
    /\ pc'[c] # "start"
    /\ task'[c] # task[c] \/ queue'[c] # queue[c] \/ iter'[c] # iter[c]

\* the step at which the handler of the log returns
HandlerReturns(c) == DispatchesLog(c) /\ task'[c] = NoTask

\* the keys of the logs of LogsSkip that can be decoded
SkipSrcCreated == << Base + 1, 2 >>
SkipOrderFilled == << Base + 1, 5 >>

\* C33: a step of a handler, failing or not, records at most its own log
\* as missed, keeps the iteration running in its stage and, when the
\* handler returns, leaves the rest of the queue to be dispatched; the logs after a failed one have their effect on the
\* store unless their own handler or fetch failed; the iteration that
\* reaches the end writes the checkpoint at the end of its range.
C33_HandlerFailureSkipsOneLog ==
    /\ [][\A c \in Chains :
            /\ DispatchesLog(c) =>
                   /\ queue'[c] = IF HandlerReturns(c) THEN Tail(queue[c])
                                  ELSE queue[c]
                   /\ pc'[c] = pc[c]
                   /\ iter'[c].result = "running"
                   /\ iter'[c].missed \subseteq
                          iter[c].missed \cup {LogKey(Head(queue[c]))}
            /\ (iter'[c] # iter[c] /\ iter'[c].result = "ok")
               => checkpoint'[c] = iter'[c].to]_vars
    /\ [](\A c \in networks :
            (/\ iter[c].result = "ok"
             /\ Base + 1 \in iter[c].from..iter[c].to) =>
                /\ SkipSrcCreated \notin iter[c].missed =>
                       \E r \in fusion_plus_swaps : r.order_hash.id = "o1"
                /\ SkipOrderFilled \notin iter[c].missed =>
                       \E r \in fusion_swaps : r.order_hash.id = "o9")

\* an iteration met the short payload and the secret that is no hex string,
\* and nothing else failed: the swap is stored and withdrawn, the order is
\* stored, the checkpoint is at the end of the range
C33_Witness ==
    \E c \in networks :
        /\ iter[c].result = "ok"
        /\ iter[c].missed = { << Base + 1, 1 >>, << Base + 1, 3 >> }
        /\ checkpoint[c] = iter[c].to
        /\ \E r \in fusion_plus_swaps :
               r.order_hash.id = "o1" /\ r.src_status = "withdrawn"
        /\ \E r \in fusion_swaps : r.order_hash.id = "o9"

(***************************************************************************)
(* One poller built by ChainPoller::new on a chain that holds a Transfer   *)
(* log in every LogEvery-th block and grows HeadJump blocks at a time, far *)
(* enough for the timestamp cache to be trimmed.  Every call of the poller *)
(* may fail.                                                               *)
(***************************************************************************)
HeadJump == 100
MaxHeadCache == 403
LogEvery == 10

\* the i-th log: one Transfer in block (i - 1) * LogEvery + 1, of
\* transaction i; the last block with a Transfer also holds an OrderFilled
\* log of the router, of a transaction of its own
LogsCache ==
    [i \in 1..(MaxHeadCache \div LogEvery) |->
        MkLog(Hex("tokS"), <<TRANSFER_TOPIC, Hex("maker1"), Hex("escS")>>,
              <<Hex("amtS")>>, (i - 1) * LogEvery + 1, Hex(i), 0)]
    \o << MkLog(AGGREGATION_ROUTER_V6, <<ORDER_FILLED_TOPIC>>,
                <<Hex("o9"), Hex("zero")>>,
                ((MaxHeadCache \div LogEvery) - 1) * LogEvery + 1,
                Hex((MaxHeadCache \div LogEvery) + 1), 1) >>

InitCache ==
    InitWith({DefaultConfig}, {ChainA},
             [c \in Chains |-> IF c = ChainA THEN LogsCache ELSE << >>])

\* the chain has grown by HeadJump blocks since the poller last looked
AdvanceHeadFar(c) ==
    /\ head[c] + HeadJump <= MaxHeadCache
    /\ head' = [head EXCEPT ![c] = @ + HeadJump]
    /\ UNCHANGED << rpc_call, task, cleanup, cover, deployment, now, stored, pc, last_processed_block,
                    window, queue, block_timestamp_cache, startup, iter, succ,
                    seen >>

NextCache ==
    \/ PollerStep(ChainA)
    \/ AdvanceHeadFar(ChainA)

SpecCache == InitCache /\ [][NextCache]_vars

\* C34: whenever the poller is between two iterations, every block of its
\* timestamp cache is at least the last processed block - 200; at any
\* time, inside an iteration included, the blocks of the cache lie between
\* the last processed block - 200 and the last processed block +
\* max_blocks_per_query, so that the cache never holds more than
\* 200 + max_blocks_per_query + 1 blocks.
C34_CacheBounded ==
    \A c \in networks :
        /\ pc[c] = "idle" =>
               \A b \in block_timestamp_cache[c] :
                   b >= last_processed_block[c] - CacheKeepBlocks
        /\ \A b \in block_timestamp_cache[c] :
               /\ b >= last_processed_block[c] - CacheKeepBlocks
               /\ b <= last_processed_block[c] + config.max_blocks_per_query
        /\ Cardinality(block_timestamp_cache[c])
               <= CacheKeepBlocks + config.max_blocks_per_query + 1

\* blocks were dropped from the cache, which holds every block with a log
\* from the last processed block - 200 on, those of a range whose batch
\* insert failed included
C34_Witness ==
    \E c \in networks :
        /\ pc[c] = "idle"
        /\ last_processed_block[c] > CacheKeepBlocks + LogEvery
        /\ iter[c].result = "insert_failed"
        /\ \E b \in block_timestamp_cache[c] : b > last_processed_block[c]
        /\ \A i \in 1..Len(ChainLogs(c)) :
               LET b == ChainLogs(c)[i].block_number
               IN b \in block_timestamp_cache[c]
                    <=> (/\ b >= last_processed_block[c] - CacheKeepBlocks
                         /\ b <= iter[c].to)

\* every block above the start block of the run and up to the persisted
\* checkpoint had its Transfer batch inserted by this run
CheckpointCovered ==
    \A c \in Chains :
        startup[c].kind # "none" =>
            \A b \in (startup[c].start_block + 1)..checkpoint[c] :
                b \in cover[c].inserted

\* C35: the range of an iteration starts at most one block above the end
\* of the range of the previous successful iteration of the run (above the
\* start block when none has succeeded), and every block above the start
\* block and up to the persisted checkpoint had its Transfer batch inserted
\* by the run.
C35_NoBlockSkipped ==
    /\ [][\A c \in Chains :
            BeginsIteration(c) =>
                iter'[c].from <= (IF succ[c].last # -1 THEN succ[c].last
                                  ELSE startup[c].start_block) + 1]_vars
    /\ []CheckpointCovered

(***************************************************************************)
(* One poller whose loop keeps running and whose calls succeed again and   *)
(* again: the task is polled whenever it can take a step, and each call of *)
(* an iteration that is made again and again succeeds at some time.  The   *)
(* chain grows up to MaxHead and then stays at its head.                   *)
(***************************************************************************)
InitProgress ==
    InitWith({IndepConfig}, {ChainA},
             [c \in Chains |-> IF c = ChainA THEN LogsSolo ELSE << >>])

NextProgress ==
    \/ PollerStep(ChainA)
    \/ AdvanceHead(ChainA)

SpecProgress ==
    /\ InitProgress /\ [][NextProgress]_vars
    /\ WF_vars(PollerStep(ChainA))
    /\ SF_vars(PollHead(ChainA, TRUE))
    /\ SF_vars(PollTransferLogs(ChainA, TRUE))
    /\ SF_vars(GetBlockTimestamp(ChainA, TRUE))
    /\ SF_vars(InsertTransfers(ChainA, TRUE))
    /\ SF_vars(FetchFactory(ChainA, TRUE))
    /\ SF_vars(ProcessLog(ChainA, TRUE))
    /\ SF_vars(FetchEscrow(ChainA, TRUE))
    /\ SF_vars(FetchRouter(ChainA, TRUE))
    /\ SF_vars(Commit(ChainA, TRUE))

\* C36: an iteration that succeeds with head H and last processed block L
\* below H - confirmation_blocks advances the persisted checkpoint by
\* min(max_blocks_per_query, H - confirmation_blocks - L) blocks; once the
\* head stays at H, a poller whose loop runs brings the checkpoint to
\* H - confirmation_blocks.
C36_Progress ==
    /\ [][\A c \in networks :
            (iter'[c] # iter[c] /\ iter'[c].result = "ok") =>
                checkpoint'[c] = checkpoint[c]
                    + Min(config.max_blocks_per_query,
                          iter'[c].head - config.confirmation_blocks
                              - iter'[c].last)]_vars
    /\ \A c \in {ChainA} :
          \/ <>(pc[c] = "exited")
          \/ <>[](checkpoint[c] = head[c] - config.confirmation_blocks)

\* the same for the last processed block of the run: an iteration that
\* succeeds leaves the checkpoint min(..) blocks above L, and the last
\* processed block reaches H - confirmation_blocks
ProgressOfLastProcessed ==
    /\ [][\A c \in networks :
            (iter'[c] # iter[c] /\ iter'[c].result = "ok") =>
                checkpoint'[c] = iter'[c].last
                    + Min(config.max_blocks_per_query,
                          iter'[c].head - config.confirmation_blocks
                              - iter'[c].last)]_vars
    /\ \A c \in {ChainA} :
          \/ <>(pc[c] = "exited")
          \/ <>[](last_processed_block[c] = head[c] - config.confirmation_blocks)

\* the checkpoint is at most the last processed block of a running poller,
\* and equal to it after startup and after an iteration that wrote it
CheckpointAtMostLast ==
    /\ [](\A c \in Chains :
            pc[c] \notin {"start", "init_read", "init_write", "exited"} =>
                checkpoint[c] <= last_processed_block[c])
    /\ [][\A c \in Chains :
            (\/ EndsStartup(c)
             \/ iter'[c] # iter[c] /\ iter'[c].result = "ok")
            => checkpoint'[c] = last_processed_block'[c]]_vars

\* C37: while a poller runs, the persisted checkpoint is at most its last
\* processed block; the two are equal after a startup that succeeds and
\* after every iteration that returns Ok, the one that finds no new block
\* included.
C37_CheckpointTracksLast ==
    /\ [](\A c \in Chains :
            pc[c] \notin {"start", "init_read", "init_write", "exited"} =>
                checkpoint[c] <= last_processed_block[c])
    /\ [][\A c \in Chains :
            (\/ EndsStartup(c)
             \/ iter'[c] # iter[c] /\ iter'[c].result \in {"ok", "skipped"})
            => checkpoint'[c] = last_processed_block'[c]]_vars

\* poller c is about to dispatch an EscrowWithdrawal whose secret decodes
\* and whose hashlock is that of no stored swap
UnknownWithdrawalNext(c) ==
    /\ pc[c] = "escrow"
    /\ queue[c] # << >>
    /\ LET log == Head(queue[c])
           dec == decode_escrow_withdrawal(log.data)
           hl == compute_hashlock_from_secret(dec.secret)
       IN /\ to_lowercase(log.topics[1]) = ESCROW_WITHDRAWAL_TOPIC
          /\ dec.ok
          /\ hl.ok
          /\ HashlockMatches(fusion_plus_swaps, hl.hashlock) = {}

\* the transfers of chain c stored for the transaction of log
TransfersOfTx(table, log) ==
    { r \in table : to_lowercase(r.tx_hash) = to_lowercase(log.transaction_hash) }

\* C38: every step of the dispatch of an EscrowWithdrawal whose hashlock
\* is that of no stored swap leaves fusion_plus_swaps as it is; when its
\* handler returns Ok, no call of it having failed, the transfers of its
\* transaction are labelled fusion_plus and no other transfer changes; the log is taken from the queue, the iteration
\* goes on and, when it reaches its end, writes the checkpoint at the end
\* of the range that holds the log.
C38_UnknownWithdrawalOnlyLabels ==
    /\ [][\A c \in networks :
            (UnknownWithdrawalNext(c) /\ DispatchesLog(c)) =>
                LET log == Head(queue[c])
                IN /\ fusion_plus_swaps' = fusion_plus_swaps
                   /\ fusion_plus_seq' = fusion_plus_seq
                   /\ queue'[c] = IF HandlerReturns(c) THEN Tail(queue[c])
                                  ELSE queue[c]
                   /\ iter'[c].result = "running"
                   /\ ~HandlerReturns(c) => transfers'[c] = transfers[c]
                   /\ (HandlerReturns(c) /\ LogKey(log) \notin iter'[c].missed) =>
                          /\ TransfersOfTx(transfers[c], log) # {} =>
                                 TransfersOfTx(transfers'[c], log) # {}
                          /\ \A r \in TransfersOfTx(transfers'[c], log) :
                                 r.swap_type = "fusion_plus"
                          /\ transfers'[c] \ TransfersOfTx(transfers'[c], log)
                                 = transfers[c] \ TransfersOfTx(transfers[c], log)]_vars
    /\ [][\A c \in networks :
            (iter'[c] # iter[c] /\ iter'[c].result = "ok") =>
                /\ checkpoint'[c] = iter'[c].to
                /\ \A i \in DOMAIN chain_logs[c] :
                       chain_logs[c][i].block_number \in iter'[c].from..iter'[c].to
                           => checkpoint'[c] >= chain_logs[c][i].block_number]_vars

\* the withdrawal of the unannounced swap was dispatched with Ok while a
\* swap was stored: the swap is as its own events left it, the transfer of
\* the withdrawal's transaction is labelled, the checkpoint is past it
C38_Witness ==
    \E c \in networks :
        /\ iter[c].result = "ok"
        /\ iter[c].missed = { << Base + 1, 1 >>, << Base + 1, 3 >> }
        /\ checkpoint[c] >= Base + 1
        /\ \E r \in fusion_plus_swaps : r.order_hash.id = "o1"
        /\ \A r \in fusion_plus_swaps : r.hashlock.id # "h2"
        /\ \E r \in transfers[c] :
               r.tx_hash = Hex("a6") /\ r.swap_type = "fusion_plus"

(***************************************************************************)
(* Two pollers.  Chain A announces the swap o1; block Base + 1 of chain B  *)
(* holds the taker's deposit and the DstEscrowCreated of o1, the           *)
(* withdrawal of its escrow and the payout, and a router fill whose two    *)
(* transfers come after the OrderFilled log.  Every call of the poller of  *)
(* chain B may fail.                                                       *)
(***************************************************************************)
LogsWindowB ==
    << MkLog(Hex("tokD"), <<TRANSFER_TOPIC, Hex("taker2"), Hex("escD")>>,
             <<Hex("amtD")>>, Base + 1, Hex("b1"), 0),
       MkLog(ESCROW_FACTORY, <<DST_ESCROW_CREATED_TOPIC>>,
             DstPayload(Hex("o1"), Hex("h1")), Base + 1, Hex("b1"), 1),
       MkLog(Hex("escD"), <<ESCROW_WITHDRAWAL_TOPIC>>,
             <<Hex("s1")>>, Base + 1, Hex("b3"), 2),
       MkLog(Hex("tokD"), <<TRANSFER_TOPIC, Hex("escD"), Hex("maker1")>>,
             <<Hex("amtD")>>, Base + 1, Hex("b3"), 3),
       MkLog(AGGREGATION_ROUTER_V6, <<ORDER_FILLED_TOPIC>>,
             <<Hex("o9"), Hex("zero")>>, Base + 1, Hex("b2"), 4),
       MkLog(Hex("tokS"), <<TRANSFER_TOPIC, Hex("maker1"), Hex("taker1")>>,
             <<Hex("amtS")>>, Base + 1, Hex("b2"), 5),
       MkLog(Hex("tokD"), <<TRANSFER_TOPIC, Hex("taker1"), Hex("maker1")>>,
             <<Hex("amtD")>>, Base + 1, Hex("b2"), 6) >>

InitWindow ==
    InitWith({IndepConfig}, Chains,
             [c \in Chains |-> IF c = ChainA THEN LogsSolo ELSE LogsWindowB])

NextWindow ==
    \/ PollerStepOk(ChainA)
    \/ PollerStep(ChainB)
    \/ \E c \in networks : AdvanceHead(c)

SpecWindow == InitWindow /\ [][NextWindow]_vars

\* the topics dispatched at each stage of an iteration
StageTopics(stage) ==
    CASE stage = "factory" -> {SRC_ESCROW_CREATED_TOPIC, DST_ESCROW_CREATED_TOPIC}
      [] stage = "escrow" -> {ESCROW_WITHDRAWAL_TOPIC, ESCROW_CANCELLED_TOPIC}
      [] stage = "router" -> {ORDER_FILLED_TOPIC, ORDER_CANCELLED_TOPIC}
      [] OTHER -> {}

\* the moves of a poller task from one stage to the next
StageMoves ==
    { <<"start", "init_read">>, <<"start", "exited">>,
      <<"init_read", "init_write">>, <<"init_read", "idle">>,
      <<"init_read", "exited">>, <<"init_write", "idle">>,
      <<"init_write", "exited">>, <<"idle", "logs">>, <<"logs", "transfers">>,
      <<"logs", "fetch">>, <<"logs", "idle">>, <<"transfers", "fetch">>,
      <<"transfers", "idle">>, <<"fetch", "factory">>,
      <<"factory", "escrow">>, <<"escrow", "router">>, <<"router", "idle">>,
      <<"factory", "idle">>, <<"escrow", "idle">> }

\* poller c is in an iteration, past the batch insert of its range
PastBatch(c) == pc[c] \in {"fetch", "factory", "escrow", "router"}

\* the transfers table that holds every Transfer the RPC returns for from..to
AllTransfersOfRange(c, from, to) ==
    insert_transfers_batch({},
        TransfersOf(c, ValidTransferLogs(get_transfer_logs(c, from, to))), 0)

\* row r of fusion_swaps carries the details d
HasDetails(r, d) ==
    /\ r.maker = to_lowercase(d.maker)
    /\ r.maker_token = map_to_lowercase(d.maker_token)
    /\ r.taker_token = map_to_lowercase(d.taker_token)
    /\ r.maker_amount = d.maker_amount
    /\ r.taker_amount = d.taker_amount

\* the iteration of poller c over block b ended with Ok, no fetch of it
\* replaced by an empty list, no handler or lookup of it failed
CleanIterationOver(c, b) ==
    /\ iter[c].result = "ok"
    /\ iter[c].missed = {}
    /\ b \in iter[c].from..iter[c].to

\* C39: a poller moves through its stages in one order: the batch of the
\* range is inserted before the factory logs are fetched, the queue of the
\* factory stage holds only SrcEscrowCreated / DstEscrowCreated logs, that
\* of the escrow stage only EscrowWithdrawal / EscrowCancelled logs, that
\* of the router stage only router logs, and the checkpoint is written only
\* at startup or when the router queue is empty.  So an iteration in which
\* nothing failed and whose DstEscrowCreated found the swap leaves
\* dst_status withdrawn, and the fill it stores carries the details that
\* all the transfers the RPC returns for the range give.
C39_StagesInOrder ==
    /\ [][\A c \in networks :
            /\ pc'[c] # pc[c] => << pc[c], pc'[c] >> \in StageMoves
            /\ (\E r \in transfers'[c] : r \notin transfers[c]
                                          /\ r.swap_type = NullText)
               => pc[c] = "transfers" /\ pc'[c] = "fetch"
            /\ checkpoint'[c] # checkpoint[c]
               => \/ pc[c] = "init_write"
                  \/ pc[c] = "router" /\ queue[c] = << >>]_vars
    /\ [](\A c \in networks :
            /\ \A i \in 1..Len(queue[c]) :
                   to_lowercase(queue[c][i].topics[1]) \in StageTopics(pc[c])
            /\ PastBatch(c) =>
                   StoredTransfers(transfers[c], window[c].from, window[c].to)
                       = TransfersOfRange(c, window[c].from, window[c].to)
            /\ CleanIterationOver(c, Base + 1) =>
                   /\ \A r \in fusion_plus_swaps :
                          (/\ r.dst_chain_id = c
                           /\ r.dst_escrow_address # NullHex)
                          => r.dst_status = "withdrawn"
                   /\ \A i \in DOMAIN chain_logs[c] :
                          LET log == chain_logs[c][i]
                          IN (/\ log.block_number = Base + 1
                              /\ Topic0In(log, {ORDER_FILLED_TOPIC}))
                             => \E r \in fusion_swaps :
                                  /\ r.chain_id = c
                                  /\ r.tx_hash = to_lowercase(log.transaction_hash)
                                  /\ \E d \in extract_swap_details_from_transfers(
                                                AllTransfersOfRange(c, iter[c].from,
                                                                    iter[c].to),
                                                log.transaction_hash) :
                                         HasDetails(r, d))

\* chain B's iteration over the block ended with nothing failed: the swap
\* announced by chain A is withdrawn on its destination side, and the fill
\* has the maker and the two tokens of the transfers that follow its log
C39_Witness ==
    /\ CleanIterationOver(ChainB, Base + 1)
    /\ \E r \in fusion_plus_swaps :
          /\ r.order_hash.id = "o1"
          /\ r.dst_escrow_address # NullHex
          /\ r.dst_status = "withdrawn"
    /\ \E r \in fusion_swaps :
          /\ r.order_hash.id = "o9"
          /\ r.maker = Hex("maker1")
          /\ r.maker_token = Hex("tokS")
          /\ r.taker_token = Hex("tokD")

(***************************************************************************)
(* The store, the clock and the cleanup task as in SpecTtl.  Chain A holds *)
(* the maker's deposit, the SrcEscrowCreated of a swap, the                *)
(* SrcEscrowCreated of a second fill of the same order and the             *)
(* cancellation of another escrow; chain B holds the swap's destination    *)
(* side, the DstEscrowCreated and the withdrawal.                          *)
(* update_fusion_plus_cancelled, which no poller calls, may be called on   *)
(* the swap for either side and chain.                                     *)
(***************************************************************************)
LogsAgeA ==
    SoloAt(Base) \o
    << MkLog(ESCROW_FACTORY, <<SRC_ESCROW_CREATED_TOPIC>>,
             SrcPayload(Hex("o1"), Hex("h1"), Hex("cB")), Base, Hex("a7"), 2),
       MkLog(Hex("escX"), <<ESCROW_CANCELLED_TOPIC>>,
             <<>>, Base, Hex("a4"), 3) >>

LogsAgeB ==
    << MkLog(ESCROW_FACTORY, <<DST_ESCROW_CREATED_TOPIC>>,
             DstPayload(Hex("o1"), Hex("h1")), Base, Hex("b1"), 0),
       MkLog(Hex("escD"), <<ESCROW_WITHDRAWAL_TOPIC>>,
             <<Hex("s1")>>, Base, Hex("b3"), 1) >>

InitAge ==
    InitAt({IndepConfig}, Chains,
           [c \in Chains |-> IF c = ChainA THEN LogsAgeA ELSE LogsAgeB],
           TtlLong, "late")

NextAge ==
    \/ \E c \in networks : PollerStepOk(c)
    \/ \E chain_id \in Chains, is_src \in BOOLEAN :
           RepoCancelled(Hex("o1"), chain_id, is_src)
    \/ TickTtl
    \/ CleanupRun(TtlLong)

SpecAge == InitAge /\ [][NextAge]_vars

\* the key of each row of a table with the row's created_at
SwapAges(table) == { << r.id, r.created_at >> : r \in table }
TransferAges(table) ==
    { << r.tx_hash, r.log_index, r.created_at >> : r \in table }
FillAges(table) ==
    { << r.chain_id, r.tx_hash, r.log_index, r.created_at >> : r \in table }

\* every row after a step that continues a row before it, the rows matched
\* by key, has the created_at of that row
CreatedAtKept(before, after) ==
    \A p \in before : \A q \in after :
        SubSeq(q, 1, Len(q) - 1) = SubSeq(p, 1, Len(p) - 1) => q = p

\* log is a DstEscrowCreated or an EscrowWithdrawal of chain c for which
\* fusion_plus_swaps holds no row
NoRowFor(c, log) ==
    \/ /\ StageOf(c, log) = "factory"
       /\ Topic0In(log, {DST_ESCROW_CREATED_TOPIC})
       /\ \A r \in fusion_plus_swaps :
              r.order_hash # decode_dst_escrow_created(log.data).order_hash
    \/ /\ StageOf(c, log) = "escrow"
       /\ Topic0In(log, {ESCROW_WITHDRAWAL_TOPIC})
       /\ HashlockMatches(fusion_plus_swaps,
              compute_hashlock_from_secret(
                  decode_escrow_withdrawal(log.data).secret).hashlock) = {}

\* C40: no step changes the created_at of a row that it keeps: not the
\* insert that is ignored, not an update of a swap (destination fill,
\* withdrawal, update_fusion_plus_cancelled), not the labelling of a
\* transfer; a cleanup run that reaches fusion_plus_swaps deletes every
\* swap created more than TTL seconds before, a pending one included; a
\* DstEscrowCreated or EscrowWithdrawal applied when no row of its swap is
\* stored leaves fusion_plus_swaps as it is.
C40_CreatedAtWrittenOnce ==
    /\ [][/\ CreatedAtKept(SwapAges(fusion_plus_swaps),
                           SwapAges(fusion_plus_swaps'))
          /\ CreatedAtKept(FillAges(fusion_swaps), FillAges(fusion_swaps'))
          /\ \A c \in networks :
                 CreatedAtKept(TransferAges(transfers[c]),
                               TransferAges(transfers'[c]))]_vars
    /\ [][CleanupFusionPlus(TtlLong, TRUE) =>
            \A r \in fusion_plus_swaps :
                now - r.created_at > TtlLong =>
                    \A q \in fusion_plus_swaps' : q.id # r.id]_vars
    /\ [][fusion_plus_swaps' # fusion_plus_swaps =>
            \A c \in networks : \A i \in DOMAIN chain_logs[c] :
                NoRowFor(c, chain_logs[c][i])
                    => ~Processes(c, chain_logs[c][i])]_vars

\* The second SrcEscrowCreated of the order was ignored, the cancellation
\* on the source chain labelled its transaction, and a cleanup deleted the
\* one swap when it was more than TTL seconds old; the DstEscrowCreated
\* and the EscrowWithdrawal of the swap were processed after that and the
\* table is empty.
C40_Witness ==
    /\ now = TtlLong + MaxTicksTtl
    /\ fusion_plus_seq = 2
    /\ fusion_plus_swaps = {}
    /\ KeysOf(LogsAgeA) \subseteq seen.once[ChainA]
    /\ KeysOf(LogsAgeB) \subseteq seen.once[ChainB]
    /\ { <<ChainB, k>> : k \in KeysOf(LogsAgeB) } \subseteq seen.late

====
